---- MODULE Spec2Model ----
(***************************************************************************)
(* The keyword-research server: the research router (rate limiter, job     *)
(* store, job pipeline, retention sweep) of src/backend/api/research.js    *)
(* (the router of lines 239-690, "research-improved"), and the AI          *)
(* enhancement phase of clusterKeywords with the Gemini service functions, *)
(* and the units they call: clusterKeywords as a whole, splitCluster,      *)
(* ensureUniqueKeywords, scrapeWebsite, scrapeWithPlaywright and a crawl.  *)
(*                                                                         *)
(* Times are milliseconds, as Date.now() gives them.  A job id stands for  *)
(* a UUID: ids 1, 2, ... are well-formed UUIDs handed out by uuidv4() in   *)
(* creation order (never reused), id 0 stands for a malformed id.          *)
(*                                                                         *)
(* The job objects live in `job` (the heap); `jobs` holds the keys of the  *)
(* Map.  A background task keeps its reference to the job object after the *)
(* key has left the Map, so `job` keeps every object ever created.         *)
(***************************************************************************)
EXTENDS Integers, Sequences, FiniteSets, TLC

----------------------------------------------------------------------------
(* Program constants *)

REQUEST_LIMIT == 10
HOUR_MS == 3600000
MAX_AGE_MS == 86400000
SWEEP_INTERVAL_MS == 3600000
SECOND_MS == 1000
RETRY_ATTEMPTS == 3
MIN_CLUSTER_SIZE == 3

(* Bounds of the exploration *)

MaxJobs == 2
MaxPosts == 11
MaxRateTicks == 1
MaxSweepJobs == 2
MaxHours == 25
MaxClusters == 2
MaxKeywords == 6
MaxRetryAttempts == 3
MaxPagesFound == 2
MaxPagesOption == 3
MaxLinks == 3
MaxMinClusterSize == 5
MaxGiven == 4
MaxPagesBelow == 1
MaxPagesAbove == 1
MaxSplitKeywords == 10

IPs == {"ipA", "ipB"}

\* What a request body's url can be: absent, unparseable / wrong protocol, fine.
UrlInputs == {"none", "invalid", "valid"}

\* Clock advances offered to the rate-limiter runs.
HALF_SECOND_MS == SECOND_MS \div 2
RateDeltas == {HALF_SECOND_MS, HOUR_MS}


----------------------------------------------------------------------------
VARIABLES
  now,            \* Date.now()
  nextSweepAt,    \* when the setInterval(cleanOldJobs) timer is next due
  requestCounts,  \* Map ip -> array of admitted request times
  jobs,           \* keys of the jobs Map
  job,            \* the job objects, by id
  pc,             \* per job: the call its background task is awaiting, or "done"
  resp,           \* the last HTTP response sent
  \* history (not program state)
  admitLog,       \* per ip: every time the rate limiter admitted a request
  lastReject,     \* per ip: the last 429 answer, until the ip's next request
  deleted,        \* ids for which DELETE answered 200
  sweptAge,       \* per job: its age when a sweep removed it (-1: not swept)
  lastSweepAt,    \* when cleanOldJobs last ran (-1: never)
  progressLog,    \* per job: every progress value written, in order
  started,        \* per job: the stage calls its task made, in order
  afterCancel,    \* ids of the jobs whose task went on after the job was cancelled
  fatal,          \* per job: the stage whose fatal condition occurred ("none")
  sources,        \* per job: where the content and metrics it used came from
  aiFailed,       \* ids of the jobs whose clustering met a failed AI request
  nticks,         \* number of clock advances so far
  \* one run of clusterKeywords' AI phase
  input,          \* its argument keywordData
  ckOptions,      \* its options and the websiteContext
  clusters,       \* the local `clusters` of clusterKeywords
  cpc,            \* the call it awaits, or "returned"
  returned,       \* the value it returned
  returnPath,     \* history: the return statement that was taken
  enhanceIdx,     \* loop index i of the enhancement loop (1-based)
  prevClusters,   \* history: `clusters` before the last AI request
  lastAi,         \* history: the last AI request and how it ended
  \* one call of scrapeWebsite
  scrapeOptions,  \* its options: strategy, retryAttempts
  spc,            \* the call it awaits, or "returned" / "threw"
  attempt,        \* loop variable `attempt`
  result,         \* local `result` ("null", or strategy tag and number of pages)
  callLog,        \* history: the strategy runs made and what each gave
  \* one crawl (one run of scrapeWithPlaywright or scrapeWithAxios)
  crawlOptions,   \* maxPages, followLinks
  visitedUrls,    \* Set visitedUrls
  pagesToVisit,   \* array pagesToVisit
  currentUrl,     \* the url whose load the crawl awaits
  crawlPages,     \* scrapedContent.pages, as the urls of the pages
  crpc,           \* "visit" while a load is awaited, then "returned"
  fetchLog,       \* history: every url a load was started for, in order
  \* one call of ensureUniqueKeywords
  given,          \* its argument
  unique,         \* the value it returned
  upc,            \* "call" before the call, then "returned"
  \* processResearch's call of scrapeWebsite
  reqOptions,     \* the options of the request body
  scraperCall,    \* the options it hands to scrapeWebsite
  jpc,            \* "scrape" before the call, then "called"
  \* one call of splitCluster
  splitArg,       \* its argument cluster
  splitResult,    \* the value it returned
  kpc,            \* "kmeans" while kmeans runs, then "returned"
  \* one run of scrapeWithPlaywright around its crawl
  browser,        \* its local `browser`: "null", "open", or "closed" / "disconnected"
  ppc,            \* the call it awaits, or "returned" / "threw"
  pwError         \* whether an exception is in flight through the finally block

serverVars == <<now, nextSweepAt, requestCounts, jobs, job, pc, resp>>
histVars == <<admitLog, lastReject, deleted, sweptAge, lastSweepAt, progressLog, started,
              afterCancel, fatal, sources, aiFailed, nticks>>
clusterVars == <<input, ckOptions, clusters, cpc, returned, returnPath, enhanceIdx,
                 prevClusters, lastAi>>
scrapeVars == <<scrapeOptions, spc, attempt, result, callLog>>
crawlVars == <<crawlOptions, visitedUrls, pagesToVisit, currentUrl, crawlPages, crpc,
               fetchLog>>
uniqueVars == <<given, unique, upc>>
callVars == <<reqOptions, scraperCall, jpc>>
splitVars == <<splitArg, splitResult, kpc>>
browserVars == <<browser, ppc, pwError>>
unitVars == <<clusterVars, scrapeVars, crawlVars, uniqueVars, callVars, splitVars, browserVars>>
notClusterVars == <<serverVars, histVars, scrapeVars, crawlVars, uniqueVars, callVars, splitVars, browserVars>>
notScrapeVars == <<serverVars, histVars, clusterVars, crawlVars, uniqueVars, callVars, splitVars, browserVars>>
notCrawlVars == <<serverVars, histVars, clusterVars, scrapeVars, uniqueVars, callVars, splitVars, browserVars>>
notUniqueVars == <<serverVars, histVars, clusterVars, scrapeVars, crawlVars, callVars, splitVars, browserVars>>
notCallVars == <<serverVars, histVars, clusterVars, scrapeVars, crawlVars, uniqueVars, splitVars, browserVars>>
notSplitVars == <<serverVars, histVars, clusterVars, scrapeVars, crawlVars, uniqueVars, callVars, browserVars>>
notBrowserVars == <<serverVars, histVars, clusterVars, scrapeVars, crawlVars, uniqueVars, callVars, splitVars>>
vars == <<serverVars, histVars, unitVars>>

----------------------------------------------------------------------------
(* Helpers *)

Last(s) == s[Len(s)]

\* Math.ceil(x / d) for integers x and d > 0
Ceil(x, d) == -((-x) \div d)

\* A response, with what the request met (history): inWindow, promised.
NoResp == [op |-> "none", id |-> 0, ip |-> "", code |-> 0, retryAfter |-> 0,
           status |-> "", data |-> "none", inWindow |-> 0, promised |-> FALSE]

NoReject == [at |-> -1, retryAfter |-> 0, oldest |-> -1]

----------------------------------------------------------------------------
(* updateJob: Object.assign(job, updates); job.updatedAt = new Date() *)

updateJob(jr, progress, step, status, error, data) ==
  [jr EXCEPT !.progress = progress, !.step = step, !.status = status,
             !.error = error, !.data = data, !.updatedAt = now]

\* updateJob writes to the job object only: the Map is not touched.
StoreAfterUpdate_Reinsert(id) == jobs \cup {id}

StoreAfterUpdate(id) == jobs

isValidUUID(id) == id >= 1

----------------------------------------------------------------------------
(* rateLimiter *)

\* requestCounts.get(ip).filter(time => time > hourAgo)
InWindow(ip) == SelectSeq(requestCounts[ip], LAMBDA t : t > now - HOUR_MS)

OverLimit_OffByOne(requests) == Len(requests) > REQUEST_LIMIT

OverLimit(requests) == Len(requests) >= REQUEST_LIMIT

RetryAfter_Floor(requests) == (requests[1] + HOUR_MS - now) \div SECOND_MS

\* Math.ceil((requests[0] + 3600000 - now) / 1000)
RetryAfter(requests) == Ceil(requests[1] + HOUR_MS - now, SECOND_MS)

\* History: the admitted requests of ip that lie within the last hour.
AdmittedInWindow(ip) ==
  {i \in DOMAIN admitLog[ip] : admitLog[ip][i] > now - HOUR_MS}

\* History: the time of the oldest of them (-1: there is none).
OldestAdmitted(ip) ==
  IF AdmittedInWindow(ip) = {} THEN -1
  ELSE CHOOSE t \in {admitLog[ip][i] : i \in AdmittedInWindow(ip)} :
         \A i \in AdmittedInWindow(ip) : t <= admitLog[ip][i]

\* History: this request comes retryAfter seconds (or more) after the ip's
\* last 429, with no request of the ip in between.
Promised(ip) ==
  /\ lastReject[ip].at >= 0
  /\ now >= lastReject[ip].at + lastReject[ip].retryAfter * SECOND_MS

----------------------------------------------------------------------------
(* validateInput *)

ValidateInput(url) ==
  IF url = "none" THEN 400
  ELSE IF url = "invalid" THEN 400
  ELSE 200

----------------------------------------------------------------------------
(* cleanOldJobs *)

JobAge(id) == now - job[id].createdAt

Expired_WrongLimit(createdAt) == now - createdAt > SWEEP_INTERVAL_MS

\* jobAge > maxAge
Expired(createdAt) == now - createdAt > MAX_AGE_MS

\* The Map keys left after a sweep of the keys in `keys` (objs: the objects).
cleanOldJobs(keys, objs) == {id \in keys : ~Expired(objs[id].createdAt)}

\* History: the age of every job this sweep removes.
SweepLog(keys) ==
  [id \in DOMAIN sweptAge |->
     IF id \in keys /\ id \notin cleanOldJobs(keys, job) THEN JobAge(id)
     ELSE sweptAge[id]]

----------------------------------------------------------------------------
(* POST /api/research: rateLimiter, validateInput, the handler.  The handler *)
(* creates the job, runs processResearch up to its first await (the probe  *)
(* validateUrl is then in flight) and sweeps.                               *)

NewJob ==
  [status |-> "processing", progress |-> 5, step |-> "validating website",
   error |-> FALSE, data |-> "none", warnings |-> <<>>,
   createdAt |-> now, updatedAt |-> now]

Extend(f, id, v) == [x \in DOMAIN f \cup {id} |-> IF x = id THEN v ELSE f[x]]

Post_CountsRejected(ip, url) ==
  LET requests == InWindow(ip)
      id == Cardinality(DOMAIN job) + 1
      base == [NoResp EXCEPT !.op = "POST", !.ip = ip,
                             !.inWindow = Cardinality(AdmittedInWindow(ip)),
                             !.promised = Promised(ip)]
  IN
  IF OverLimit(requests)
  THEN /\ resp' = [base EXCEPT !.code = 429, !.retryAfter = RetryAfter(requests)]
       /\ lastReject' = [lastReject EXCEPT
                           ![ip] = [at |-> now, retryAfter |-> RetryAfter(requests),
                                    oldest |-> OldestAdmitted(ip)]]
       /\ requestCounts' = [requestCounts EXCEPT ![ip] = Append(requests, now)]
       /\ UNCHANGED <<now, nextSweepAt, jobs, job, pc>>
       /\ UNCHANGED <<admitLog, deleted, sweptAge, lastSweepAt, progressLog, started,
                      afterCancel, fatal, sources, aiFailed, nticks>>
       /\ UNCHANGED unitVars
  ELSE /\ requestCounts' = [requestCounts EXCEPT ![ip] = Append(requests, now)]
       /\ admitLog' = [admitLog EXCEPT ![ip] = Append(@, now)]
       /\ lastReject' = [lastReject EXCEPT ![ip] = NoReject]
       /\ IF ValidateInput(url) # 200
          THEN /\ resp' = [base EXCEPT !.code = ValidateInput(url)]
               /\ UNCHANGED <<jobs, job, pc, sweptAge, lastSweepAt, progressLog, started,
                              fatal, sources, aiFailed>>
          ELSE /\ job' = Extend(job, id, NewJob)
               /\ pc' = Extend(pc, id, "validateUrl")
               /\ jobs' = cleanOldJobs(jobs \cup {id}, job')
               /\ sweptAge' = Extend(SweepLog(jobs), id, -1)
               /\ lastSweepAt' = now
               /\ progressLog' = Extend(progressLog, id, <<0, 5>>)
               /\ started' = Extend(started, id, <<"validateUrl">>)
               /\ fatal' = Extend(fatal, id, "none")
               /\ sources' = Extend(sources, id, {})
               /\ UNCHANGED aiFailed
               /\ resp' = [base EXCEPT !.code = 200, !.id = id,
                                       !.status = "processing"]
       /\ UNCHANGED <<now, nextSweepAt, deleted, afterCancel, nticks>>
       /\ UNCHANGED unitVars

Post(ip, url) ==
  LET requests == InWindow(ip)
      id == Cardinality(DOMAIN job) + 1
      base == [NoResp EXCEPT !.op = "POST", !.ip = ip,
                             !.inWindow = Cardinality(AdmittedInWindow(ip)),
                             !.promised = Promised(ip)]
  IN
  IF OverLimit(requests)
  THEN /\ resp' = [base EXCEPT !.code = 429, !.retryAfter = RetryAfter(requests)]
       /\ lastReject' = [lastReject EXCEPT
                           ![ip] = [at |-> now, retryAfter |-> RetryAfter(requests),
                                    oldest |-> OldestAdmitted(ip)]]
       /\ UNCHANGED <<now, nextSweepAt, requestCounts, jobs, job, pc>>
       /\ UNCHANGED <<admitLog, deleted, sweptAge, lastSweepAt, progressLog, started,
                      afterCancel, fatal, sources, aiFailed, nticks>>
       /\ UNCHANGED unitVars
  ELSE /\ requestCounts' = [requestCounts EXCEPT ![ip] = Append(requests, now)]
       /\ admitLog' = [admitLog EXCEPT ![ip] = Append(@, now)]
       /\ lastReject' = [lastReject EXCEPT ![ip] = NoReject]
       /\ IF ValidateInput(url) # 200
          THEN /\ resp' = [base EXCEPT !.code = ValidateInput(url)]
               /\ UNCHANGED <<jobs, job, pc, sweptAge, lastSweepAt, progressLog, started,
                              fatal, sources, aiFailed>>
          ELSE /\ job' = Extend(job, id, NewJob)
               /\ pc' = Extend(pc, id, "validateUrl")
               /\ jobs' = cleanOldJobs(jobs \cup {id}, job')
               /\ sweptAge' = Extend(SweepLog(jobs), id, -1)
               /\ lastSweepAt' = now
               /\ progressLog' = Extend(progressLog, id, <<0, 5>>)
               /\ started' = Extend(started, id, <<"validateUrl">>)
               /\ fatal' = Extend(fatal, id, "none")
               /\ sources' = Extend(sources, id, {})
               /\ UNCHANGED aiFailed
               /\ resp' = [base EXCEPT !.code = 200, !.id = id,
                                       !.status = "processing"]
       /\ UNCHANGED <<now, nextSweepAt, deleted, afterCancel, nticks>>
       /\ UNCHANGED unitVars

----------------------------------------------------------------------------
(* GET /api/research/:jobId, GET /api/research/:jobId/export, DELETE *)

Get(id) ==
  /\ resp' = IF ~isValidUUID(id) THEN [NoResp EXCEPT !.op = "GET", !.id = id, !.code = 400]
             ELSE IF id \notin jobs THEN [NoResp EXCEPT !.op = "GET", !.id = id, !.code = 404]
             ELSE [NoResp EXCEPT !.op = "GET", !.id = id, !.code = 200,
                                 !.status = job[id].status, !.data = job[id].data]
  /\ UNCHANGED <<now, nextSweepAt, requestCounts, jobs, job, pc>>
  /\ UNCHANGED histVars
  /\ UNCHANGED unitVars

Export(id, format) ==
  /\ resp' = IF ~isValidUUID(id) THEN [NoResp EXCEPT !.op = "EXPORT", !.id = id, !.code = 400]
             ELSE IF id \notin jobs THEN [NoResp EXCEPT !.op = "EXPORT", !.id = id, !.code = 404]
             ELSE IF job[id].status # "completed"
               THEN [NoResp EXCEPT !.op = "EXPORT", !.id = id, !.code = 400,
                                   !.status = job[id].status]
             ELSE IF format \in {"csv", "json"}
               THEN [NoResp EXCEPT !.op = "EXPORT", !.id = id, !.code = 200,
                                   !.status = job[id].status, !.data = job[id].data]
             ELSE [NoResp EXCEPT !.op = "EXPORT", !.id = id, !.code = 400,
                                 !.status = job[id].status]
  /\ UNCHANGED <<now, nextSweepAt, requestCounts, jobs, job, pc>>
  /\ UNCHANGED histVars
  /\ UNCHANGED unitVars

Delete(id) ==
  /\ IF ~isValidUUID(id)
     THEN /\ resp' = [NoResp EXCEPT !.op = "DELETE", !.id = id, !.code = 400]
          /\ UNCHANGED <<jobs, job, deleted>>
     ELSE IF id \notin jobs
     THEN /\ resp' = [NoResp EXCEPT !.op = "DELETE", !.id = id, !.code = 404]
          /\ UNCHANGED <<jobs, job, deleted>>
     ELSE /\ job' = IF job[id].status = "processing"
                    THEN [job EXCEPT ![id].status = "cancelled"]
                    ELSE job
          /\ jobs' = jobs \ {id}
          /\ deleted' = deleted \cup {id}
          /\ resp' = [NoResp EXCEPT !.op = "DELETE", !.id = id, !.code = 200]
  /\ UNCHANGED <<now, nextSweepAt, requestCounts, pc>>
  /\ UNCHANGED <<admitLog, lastReject, sweptAge, lastSweepAt, progressLog, started,
                 afterCancel, fatal, sources, aiFailed, nticks>>
  /\ UNCHANGED unitVars

----------------------------------------------------------------------------
(* processResearch: one action per resumption of the task, from the await  *)
(* that has completed to the next await (or to the end).  The outcome of   *)
(* the awaited call is the action's input.  A count of -1 stands for a    *)
(* call that threw (or, for the scraper, for no result at all).           *)

Outcomes == -1 .. 1

\* scrapeWebsite's last check: if (!result || result.pages.length === 0) throw
ScrapeStage_DemoFallback(pages) ==
  IF pages <= 0 THEN [ok |-> TRUE, src |-> "demo"]
  ELSE [ok |-> TRUE, src |-> "scraper"]

ScrapeStage(pages) ==
  IF pages <= 0 THEN [ok |-> FALSE, src |-> "none"]
  ELSE [ok |-> TRUE, src |-> "scraper"]

\* if (!seedKeywords || seedKeywords.length === 0) throw
SeedStage(seeds) ==
  IF seeds <= 0 THEN [ok |-> FALSE, src |-> "none"]
  ELSE [ok |-> TRUE, src |-> "extractor"]

\* getKeywordMetrics rethrows; if (!keywordData || keywordData.length === 0) throw
MetricsStage(keywords) ==
  IF keywords <= 0 THEN [ok |-> FALSE, src |-> "none"]
  ELSE [ok |-> TRUE, src |-> "google-ads"]

\* The catch block: status failed, error message, progress 0.
FailedJob_KeepsPartial(jr) ==
  updateJob(jr, 0, jr.step, "failed", TRUE, "partial")

FailedJob(jr) == updateJob(jr, 0, jr.step, "failed", TRUE, jr.data)

Throw(id) ==
  /\ job' = [job EXCEPT ![id] = FailedJob(@)]
  /\ pc' = [pc EXCEPT ![id] = "done"]
  /\ progressLog' = [progressLog EXCEPT ![id] = Append(@, 0)]
  /\ UNCHANGED <<started, afterCancel, sources, aiFailed>>

\* updateJob(job, {progress, step}) and the call of the next stage.
Proceed(id, src, progress, step, next) ==
  /\ job' = [job EXCEPT ![id] = updateJob(@, progress, step, @.status, @.error, @.data)]
  /\ pc' = [pc EXCEPT ![id] = next]
  /\ progressLog' = [progressLog EXCEPT ![id] = Append(@, progress)]
  /\ started' = [started EXCEPT ![id] = Append(@, next)]
  /\ afterCancel' = IF job[id].status = "cancelled"
                    THEN afterCancel \cup {id}
                    ELSE afterCancel
  /\ sources' = [sources EXCEPT ![id] = @ \cup ({src} \ {"none"})]
  /\ UNCHANGED aiFailed

TaskFrame(id, stage, isFatal) ==
  /\ id \in DOMAIN pc
  /\ pc[id] = stage
  /\ jobs' = StoreAfterUpdate(id)
  /\ fatal' = [fatal EXCEPT ![id] = IF isFatal THEN stage ELSE @]
  /\ UNCHANGED <<now, nextSweepAt, requestCounts, resp>>
  /\ UNCHANGED <<admitLog, lastReject, deleted, sweptAge, lastSweepAt, nticks>>
  /\ UNCHANGED unitVars

\* const isValid = await scraperUnified.validateUrl(url)
ValidateDone(id, isValid) ==
  /\ TaskFrame(id, "validateUrl", ~isValid)
  /\ IF ~isValid THEN Throw(id)
     ELSE Proceed(id, "none", 10, "scanning website content", "scrapeWebsite")

\* const content = await scraperUnified.scrapeWebsite(url, ...)
ScrapeDone(id, pages) ==
  /\ TaskFrame(id, "scrapeWebsite", pages <= 0)
  /\ IF ~ScrapeStage(pages).ok THEN Throw(id)
     ELSE Proceed(id, ScrapeStage(pages).src, 30, "extracting keywords with AI",
                  "extractKeywords")

\* const seedKeywords = await keywordExtractor.extractKeywords(...)
ExtractDone(id, seeds) ==
  /\ TaskFrame(id, "extractKeywords", seeds = 0)
  /\ IF ~SeedStage(seeds).ok THEN Throw(id)
     ELSE Proceed(id, SeedStage(seeds).src, 50,
                  "fetching keyword metrics from Google Ads", "getKeywordMetrics")

\* const keywordData = await googleAdsImproved.getKeywordMetrics(...)
MetricsDone(id, keywords) ==
  /\ TaskFrame(id, "getKeywordMetrics", keywords <= 0)
  /\ IF ~MetricsStage(keywords).ok THEN Throw(id)
     ELSE Proceed(id, MetricsStage(keywords).src, 70,
                  "building intelligent topic clusters", "clusterKeywords")

\* const clusters = await clusteringImproved.clusterKeywords(...): progress 90,
\* finalData, then the update that completes the job, with no await between.
\* clusterKeywords returns the clusters alone: of a failed AI request (n = 0)
\* only its console.warn remains.
ClusterDone(id, n) ==
  /\ TaskFrame(id, "clusterKeywords", FALSE)
  /\ IF n < 0 THEN Throw(id)
     ELSE /\ job' = [job EXCEPT ![id] = updateJob(@, 100, "completed", "completed",
                                                  @.error, "final")]
          /\ pc' = [pc EXCEPT ![id] = "done"]
          /\ progressLog' = [progressLog EXCEPT ![id] = @ \o <<90, 100>>]
          /\ started' = [started EXCEPT ![id] = Append(@, "finalize")]
          /\ afterCancel' = IF job[id].status = "cancelled"
                            THEN afterCancel \cup {id}
                            ELSE afterCancel
          /\ aiFailed' = IF n = 0 THEN aiFailed \cup {id} ELSE aiFailed
          /\ UNCHANGED sources

----------------------------------------------------------------------------
(* The clock and the setInterval(cleanOldJobs, 60 * 60 * 1000) timer.  The  *)
(* clock stops where the timer is due: the timer fires on time.             *)

Min(a, b) == IF a < b THEN a ELSE b

Max(a, b) == IF a > b THEN a ELSE b

AdvanceTo(t) ==
  /\ t > now
  /\ now < nextSweepAt
  /\ now' = Min(t, nextSweepAt)
  /\ UNCHANGED <<nextSweepAt, requestCounts, jobs, job, pc, resp>>
  /\ UNCHANGED <<admitLog, lastReject, deleted, sweptAge, lastSweepAt, progressLog, started,
                 afterCancel, fatal, sources, aiFailed>>
  /\ UNCHANGED unitVars

Tick(d) == AdvanceTo(now + d) /\ UNCHANGED nticks

CountedTick(d) == AdvanceTo(now + d) /\ nticks' = nticks + 1

\* The client of ip waits the retryAfter seconds its last 429 told it to.
RetryWait(ip) ==
  /\ lastReject[ip].at >= 0
  /\ AdvanceTo(lastReject[ip].at + lastReject[ip].retryAfter * SECOND_MS)
  /\ UNCHANGED nticks

SweepTimer ==
  /\ now = nextSweepAt
  /\ jobs' = cleanOldJobs(jobs, job)
  /\ sweptAge' = SweepLog(jobs)
  /\ lastSweepAt' = now
  /\ nextSweepAt' = nextSweepAt + SWEEP_INTERVAL_MS
  /\ UNCHANGED <<now, requestCounts, job, pc, resp>>
  /\ UNCHANGED <<admitLog, lastReject, deleted, progressLog, started,
                 afterCancel, fatal, sources, aiFailed, nticks>>
  /\ UNCHANGED unitVars

----------------------------------------------------------------------------
(* clusterKeywords, the functions it calls and the Gemini service          *)
(* functions it awaits.  A keyword is a record of its text and its search  *)
(* volume, every keyword of 'medium' competition; a cluster carries the     *)
(* fields the code reads or writes.  An absent string field is             *)
(* "undefined", an absent rank is 0, an absent relevanceScore is -1.       *)

\* The keywords of the research: two-word phrases, none containing another,
\* with distinct volumes in descending order.
KeywordNames ==
  <<"seo audit", "seo tools", "seo services", "content marketing",
    "content plan", "link building", "blog ideas", "press kit">>

keywordData ==
  [i \in 1 .. MaxKeywords |->
     [keyword |-> KeywordNames[i],
      searchVolume |-> (Len(KeywordNames) + 1 - i) * 100]]

\* String.prototype.trim and toLowerCase on the strings that occur.
Trim(s) ==
  CASE s = "SEO Audit " -> "SEO Audit"
    [] s = "Audit Hub " -> "Audit Hub"
    [] s = "  " -> ""
    [] OTHER -> s

ToLowerCase(s) ==
  CASE s = "SEO Audit" -> "seo audit"
    [] s = "Audit Hub" -> "audit hub"
    [] s = "Technical SEO" -> "technical seo"
    [] s = "Growth Playbook" -> "growth playbook"
    [] s = "Unknown Topic" -> "unknown topic"
    [] OTHER -> s

normalizeKeyword(keyword) == ToLowerCase(Trim(keyword))

\* text.split(' ') and tokenizer.tokenize(text) of a lower-cased text: the
\* texts that occur hold letters and single spaces only, so both give the
\* words of the text.
Words(text) ==
  CASE text = "seo audit" -> <<"seo", "audit">>
    [] text = "seo tools" -> <<"seo", "tools">>
    [] text = "seo services" -> <<"seo", "services">>
    [] text = "content marketing" -> <<"content", "marketing">>
    [] text = "content plan" -> <<"content", "plan">>
    [] text = "link building" -> <<"link", "building">>
    [] text = "blog ideas" -> <<"blog", "ideas">>
    [] text = "press kit" -> <<"press", "kit">>
    [] text = "new keyword" -> <<"new", "keyword">>
    [] text = "seo" -> <<"seo">>
    [] text = "marketing" -> <<"marketing">>
    [] text = "technical seo" -> <<"technical", "seo">>
    [] text = "audit hub" -> <<"audit", "hub">>
    [] text = "growth playbook" -> <<"growth", "playbook">>
    [] text = "unknown topic" -> <<"unknown", "topic">>
    [] OTHER -> <<>>

\* stemmer.stem (Porter) on the words that occur.
Stem(word) ==
  CASE word = "tools" -> "tool"
    [] word = "services" -> "servic"
    [] word = "marketing" -> "market"
    [] word = "building" -> "build"
    [] word = "ideas" -> "idea"
    [] word = "technical" -> "technic"
    [] OTHER -> word

Range(seq) == {seq[i] : i \in DOMAIN seq}

\* lower1.includes(lower2), on texts none of whose words lies inside a word
\* of another: the words of lower2 stand in a row in lower1.
Includes(lower1, lower2) ==
  LET words1 == Words(lower1)
      words2 == Words(lower2)
  IN \E at \in 0 .. Len(words1) :
       /\ at + Len(words2) <= Len(words1)
       /\ \A i \in DOMAIN words2 : words1[at + i] = words2[i]

\* calculateSemanticSimilarity, in units of 1/1200: the Jaccard index has a
\* denominator of at most 6, the bonuses are 0.3, 0.2 and 0.15.
calculateSemanticSimilarity(text1, text2) ==
  LET lower1 == ToLowerCase(text1)
      lower2 == ToLowerCase(text2)
      tokens1 == {Stem(t) : t \in Range(Words(lower1))}
      tokens2 == {Stem(t) : t \in Range(Words(lower2))}
      intersection == tokens1 \cap tokens2
      union == tokens1 \cup tokens2
      jaccardSim == IF Cardinality(union) > 0
                    THEN (1200 * Cardinality(intersection)) \div Cardinality(union)
                    ELSE 0
      substringBonus == IF Includes(lower1, lower2) \/ Includes(lower2, lower1)
                        THEN 360 ELSE 0
      words1 == Words(lower1)
      words2 == Words(lower2)
      patternBonus ==
        IF Len(words1) > 1 /\ Len(words2) > 1
           /\ words1[Len(words1)] = words2[Len(words2)] THEN 240
        ELSE IF Len(words1) > 1 /\ Len(words2) > 1 /\ words1[1] = words2[1]
        THEN 180
        ELSE 0
  IN Min(1200, jaccardSim + substringBonus + patternBonus)

\* Math.round(a / b) for a >= 0, b > 0
RoundDiv(a, b) == (2 * a + b) \div (2 * b)

RECURSIVE calculateTotalVolume(_)
calculateTotalVolume(keywords) ==
  IF keywords = <<>> THEN 0
  ELSE keywords[1].searchVolume + calculateTotalVolume(Tail(keywords))

\* [...keywords].sort((a, b) => b.searchVolume - a.searchVolume): stable.
InsertByVolume(k, sorted) ==
  LET before == SelectSeq(sorted, LAMBDA x : x.searchVolume >= k.searchVolume)
      after == SelectSeq(sorted, LAMBDA x : x.searchVolume < k.searchVolume)
  IN before \o <<k>> \o after

RECURSIVE SortByVolume(_)
SortByVolume(keywords) ==
  IF keywords = <<>> THEN <<>>
  ELSE InsertByVolume(Last(keywords),
                      SortByVolume(SubSeq(keywords, 1, Len(keywords) - 1)))

\* For phrases of KeywordNames the score of selectPillarTopic grows with the
\* volume alone, so the first of the sorted keywords wins.
selectPillarTopic(sortedKeywords) ==
  IF sortedKeywords = <<>> THEN "Unknown Topic" ELSE sortedKeywords[1].keyword

DEFAULT_RELEVANCE_SCORE == 65

\* Math.min(10, Math.log1p(n) * 4), in units of 1/10000.
SizeScore(n) ==
  CASE n = 0 -> 0 [] n = 1 -> 27726 [] n = 2 -> 43944 [] n = 3 -> 55452 [] n = 4 -> 64378
    [] n = 5 -> 71670 [] n = 6 -> 77836 [] n = 7 -> 83178 [] n = 8 -> 87889
    [] n = 9 -> 92103 [] n = 10 -> 95916 [] n = 11 -> 99396
    [] OTHER -> 100000

\* The sum of the five scores, rounded: the relevance is given in units of
\* 1/10000.  A volume is 0 or at least 100 and a cluster has fewer than 9
\* keywords, so both volume scores are at their cap (40 from a total of 99,
\* 25 from an average of 12) or 0; competition 'medium' gives 10.
CombinedScore(keywords, relevanceScore) ==
  LET totalVolume == calculateTotalVolume(keywords)
      totalVolumeScore == IF totalVolume = 0 THEN 0 ELSE 400000
      avgVolumeScore == IF totalVolume = 0 THEN 0 ELSE 250000
      competitionScore == 100000
      sizeScore == SizeScore(Len(keywords))
      normalizedRelevance == Max(0, Min(10000, relevanceScore))
      relevanceComponent == normalizedRelevance * 25
      combinedScore == totalVolumeScore + avgVolumeScore + competitionScore
                       + sizeScore + relevanceComponent
  IN RoundDiv(Min(1000000, Max(0, combinedScore)), 10000)

calculateClusterValue(keywords, relevanceScore) ==
  IF keywords = <<>> THEN 0 ELSE CombinedScore(keywords, relevanceScore)

ClusterObject(id, sortedKeywords, algorithm) ==
  [id |-> id,
   pillarTopic |-> selectPillarTopic(sortedKeywords),
   keywords |-> sortedKeywords,
   totalSearchVolume |-> calculateTotalVolume(sortedKeywords),
   avgSearchVolume |-> RoundDiv(calculateTotalVolume(sortedKeywords),
                                Len(sortedKeywords)),
   clusterValueScore |-> calculateClusterValue(sortedKeywords,
                                               DEFAULT_RELEVANCE_SCORE * 100),
   algorithm |-> algorithm,
   keywordCount |-> Len(sortedKeywords),
   relevanceScore |-> -1,
   rank |-> 0,
   aiPriority |-> "undefined",
   aiEnhanced |-> FALSE,
   aiDescription |-> "undefined",
   aiContentStrategy |-> "undefined"]

createClusterObject(id, keywords, algorithm) ==
  ClusterObject(id, SortByVolume(keywords), algorithm)

\* The outcomes of a request to the AI service that are failures: the call
\* threw, the text holds no {...}, the {...} does not parse.
AiFailures == {"error", "nojson", "badjson"}

\* analyzeAndRegroupClusters
AnalyzeAndRegroupClusters(cl, r) ==
  IF r.kind = "error" THEN cl
  ELSE IF r.kind = "nojson" THEN cl
  ELSE IF r.kind = "badjson" THEN cl
  ELSE [index \in 1 .. Len(cl) |->
          [cl[index] EXCEPT
             !.pillarTopic = IF index \in DOMAIN r.improvedNames
                                  /\ r.improvedNames[index] # ""
                             THEN r.improvedNames[index] ELSE @,
             !.aiPriority = IF ~r.hasPriority THEN "undefined"
                            ELSE IF index \in r.priorityClusters THEN "true"
                            ELSE "false",
             !.aiEnhanced = TRUE]]

\* enhanceClusterWithAI
EnhanceClusterWithAI(cluster, r) ==
  IF r.kind = "error" THEN cluster
  ELSE IF r.kind = "nojson" THEN cluster
  ELSE IF r.kind = "badjson" THEN cluster
  ELSE [cluster EXCEPT
          !.pillarTopic = IF r.pillarTopic # "" THEN r.pillarTopic ELSE @,
          !.aiDescription = r.description,
          !.aiContentStrategy = r.contentStrategy,
          !.aiEnhanced = TRUE]

\* buildKeywordUniverse: the Map keeps, per normalized text, the first record
\* met in allKeywords and then in the clusters; here the records in that
\* order, and get() as the first match.
RECURSIVE FlattenKeywords(_)
FlattenKeywords(cl) ==
  IF cl = <<>> THEN <<>> ELSE cl[1].keywords \o FlattenKeywords(Tail(cl))

buildKeywordUniverse(allKeywords, cl) == allKeywords \o FlattenKeywords(cl)

UniverseGet(keywordUniverse, normalized, keyword) ==
  LET hits == SelectSeq(keywordUniverse,
                        LAMBDA k : normalizeKeyword(k.keyword) = normalized)
  IN IF hits # <<>> THEN hits[1]
     ELSE [keyword |-> keyword, searchVolume |-> 0]

applyKeywordAssignment(keyword, targetIndex, cl, keywordUniverse) ==
  LET normalized == normalizeKeyword(keyword)
      removed == [i \in DOMAIN cl |->
                    [cl[i] EXCEPT !.keywords =
                       SelectSeq(@, LAMBDA k : normalizeKeyword(k.keyword) # normalized)]]
  IN IF normalized = "" \/ targetIndex \notin DOMAIN cl THEN cl
     ELSE IF \E j \in DOMAIN removed[targetIndex].keywords :
               normalizeKeyword(removed[targetIndex].keywords[j].keyword) = normalized
     THEN removed
     ELSE [removed EXCEPT ![targetIndex].keywords =
             Append(@, UniverseGet(keywordUniverse, normalized, keyword))]

\* analysis.keywordAssignments.forEach(...); also the keywordsToMove.forEach
\* of a merge, with every keyword bound for the primary cluster.
RECURSIVE ApplyAssignments(_, _, _)
ApplyAssignments(cl, assignments, keywordUniverse) ==
  IF assignments = <<>> THEN cl
  ELSE ApplyAssignments(
         applyKeywordAssignment(assignments[1].keyword, assignments[1].cluster,
                                cl, keywordUniverse),
         Tail(assignments), keywordUniverse)

MergeCluster(cl, primaryIndex, index, keywordUniverse) ==
  IF index = primaryIndex \/ index \notin DOMAIN cl THEN cl
  ELSE ApplyAssignments(
         [cl EXCEPT ![index].keywords = <<>>],
         [j \in DOMAIN cl[index].keywords |->
            [keyword |-> cl[index].keywords[j].keyword, cluster |-> primaryIndex]],
         keywordUniverse)

RECURSIVE MergeClusters(_, _, _, _)
MergeClusters(cl, primaryIndex, clusterIds, keywordUniverse) ==
  IF clusterIds = <<>> THEN cl
  ELSE MergeClusters(MergeCluster(cl, primaryIndex, clusterIds[1], keywordUniverse),
                     primaryIndex, Tail(clusterIds), keywordUniverse)

RECURSIVE ApplyMergeSuggestions(_, _, _)
ApplyMergeSuggestions(cl, suggestions, keywordUniverse) ==
  IF suggestions = <<>> THEN cl
  ELSE LET clusterIds == suggestions[1]
           merged == IF Len(clusterIds) < 2 THEN cl
                     ELSE IF clusterIds[1] \notin DOMAIN cl THEN cl
                     ELSE MergeClusters(cl, clusterIds[1], Tail(clusterIds),
                                        keywordUniverse)
       IN ApplyMergeSuggestions(merged, Tail(suggestions), keywordUniverse)

ApplyClusterRenames(cl, clusterRenames) ==
  [i \in DOMAIN cl |->
     IF i \in DOMAIN clusterRenames /\ Trim(clusterRenames[i]) # ""
     THEN [cl[i] EXCEPT !.pillarTopic = Trim(clusterRenames[i])]
     ELSE cl[i]]

recalculateClusterMetrics(cluster) ==
  LET sortedKeywords == SortByVolume(cluster.keywords)
      totalSearchVolume == calculateTotalVolume(sortedKeywords)
      keywordCount == Len(sortedKeywords)
      rawRelevance == IF cluster.relevanceScore >= 0 THEN cluster.relevanceScore
                      ELSE DEFAULT_RELEVANCE_SCORE
      normalizedRelevance ==
        Max(0, Min(100, IF rawRelevance = 0 THEN DEFAULT_RELEVANCE_SCORE
                        ELSE rawRelevance))
  IN [cluster EXCEPT
        !.pillarTopic = IF Trim(@) # "" THEN @
                        ELSE IF sortedKeywords # <<>> THEN sortedKeywords[1].keyword
                        ELSE "Unknown Topic",
        !.keywords = sortedKeywords,
        !.keywordCount = keywordCount,
        !.totalSearchVolume = totalSearchVolume,
        !.avgSearchVolume = IF keywordCount > 0
                            THEN RoundDiv(totalSearchVolume, keywordCount) ELSE 0,
        !.relevanceScore = normalizedRelevance,
        !.clusterValueScore = CombinedScore(sortedKeywords,
                                            normalizedRelevance * 100)]

\* scrutinizeClusterTopics once the answer has parsed: renames, merges,
\* keyword assignments, then the metrics of every cluster and the filter.
ApplyAnalysis(cl, allKeywords, analysis) ==
  LET keywordUniverse == buildKeywordUniverse(allKeywords, cl)
      renamed == ApplyClusterRenames(cl, analysis.clusterRenames)
      merged == ApplyMergeSuggestions(renamed, analysis.mergeSuggestions,
                                      keywordUniverse)
      assigned == ApplyAssignments(merged, analysis.keywordAssignments,
                                   keywordUniverse)
      recalculated == [i \in DOMAIN assigned |->
                         recalculateClusterMetrics(assigned[i])]
  IN SelectSeq(recalculated, LAMBDA c : Len(c.keywords) > 0)

ScrutinizeClusterTopics_EmptyOnFailure(cl, allKeywords, r) ==
  IF r.kind = "ok" THEN ApplyAnalysis(cl, allKeywords, r) ELSE <<>>

ScrutinizeClusterTopics(cl, allKeywords, r) ==
  IF cl = <<>> THEN cl
  ELSE IF r.kind = "error" THEN cl
  ELSE IF r.kind = "nojson" THEN cl
  ELSE IF r.kind = "badjson" THEN cl
  ELSE ApplyAnalysis(cl, allKeywords, r)

STOP_WORDS ==
  {"the", "and", "for", "with", "that", "this", "from", "your", "when", "what",
   "best", "how", "are", "was", "you", "why", "can", "will", "use", "using",
   "into", "have", "has", "had", "their", "them", "they", "about", "want",
   "need", "idea", "ideas", "tips", "guide", "guides", "info", "information",
   "to", "in", "on", "of", "a", "an", "is", "it", "be", "by", "or", "as"}

STEMMED_STOP_WORDS == {Stem(word) : word \in STOP_WORDS}

\* tokenizeForRelevance: no word that occurs has a stem of one letter.
tokenizeForRelevance(text) ==
  {Stem(token) : token \in {t \in Range(Words(ToLowerCase(text))) :
                               /\ t \notin STOP_WORDS
                               /\ Stem(t) \notin STEMMED_STOP_WORDS}}

\* buildRelevanceContext of a websiteContext whose only text is its title
\* ("" for a websiteContext of no text at all).
buildRelevanceContext(websiteContext) ==
  LET normalizedText == ToLowerCase(websiteContext.title)
  IN [normalizedText |-> normalizedText,
      tokens |-> tokenizeForRelevance(normalizedText)]

\* scoreKeywordRelevance, in units of 1/600: a keyword has at most 3 tokens
\* and the union at most 6.
scoreKeywordRelevance(keyword, contextInfo, keywordTokens) ==
  LET normalizedKeyword == ToLowerCase(keyword)
      tokens == keywordTokens
      matches == tokens \cap contextInfo.tokens
      unionSize == Cardinality(tokens \cup contextInfo.tokens)
      score == (420 * Cardinality(matches)) \div Cardinality(tokens)
               + (180 * Cardinality(matches)) \div unionSize
  IN IF tokens = {} THEN 0
     ELSE IF matches = {} THEN 0
     ELSE IF contextInfo.normalizedText # "" /\ normalizedKeyword # ""
             /\ Includes(contextInfo.normalizedText, normalizedKeyword)
     THEN Min(600, Max(score, 540))
     ELSE IF 5 * Cardinality(matches) >= 3 * Cardinality(tokens)
             /\ Cardinality(tokens) <= 3
     THEN Min(600, Max(score, 450))
     ELSE Min(600, score)

\* Math.max(1, Math.log10(searchVolume + 10)), in units of 1/1000, for the
\* volumes that occur.
KeywordWeight(searchVolume) ==
  CASE searchVolume = 0 -> 1000 [] searchVolume = 100 -> 2041
    [] searchVolume = 200 -> 2322 [] searchVolume = 300 -> 2491
    [] searchVolume = 400 -> 2613 [] searchVolume = 500 -> 2708
    [] searchVolume = 600 -> 2785 [] searchVolume = 700 -> 2851
    [] OTHER -> 2908

RECURSIVE SumSeq(_)
SumSeq(numbers) ==
  IF numbers = <<>> THEN 0 ELSE numbers[1] + SumSeq(Tail(numbers))

RECURSIVE MaxSeq(_)
MaxSeq(numbers) ==
  IF numbers = <<>> THEN 0 ELSE Max(numbers[1], MaxSeq(Tail(numbers)))

\* enrichClusterWithRelevance, by parts.  relevanceScore is kept in
\* hundredths, the unrounded relevance behind the value score in units of
\* 1/10000; a keyword score is in units of 1/600.
KeywordScore(k, contextInfo, hasContext) ==
  IF hasContext
  THEN scoreKeywordRelevance(k.keyword, contextInfo,
                             tokenizeForRelevance(k.keyword))
  ELSE (DEFAULT_RELEVANCE_SCORE * 600) \div 100

ShouldKeep(k, contextInfo, allowRemoval, hasContext) ==
  \/ ~allowRemoval
  \/ ~hasContext
  \/ KeywordScore(k, contextInfo, hasContext) > 6
  \/ tokenizeForRelevance(k.keyword) = {}

\* The cluster without keywords that the code returns where it has no
\* context to judge by.
EmptiedCluster(cluster) ==
  [cluster EXCEPT
     !.keywords = <<>>,
     !.keywordCount = 0,
     !.totalSearchVolume = 0,
     !.avgSearchVolume = 0,
     !.relevanceScore = IF @ >= 0 THEN Max(0, Min(100, @))
                        ELSE DEFAULT_RELEVANCE_SCORE,
     !.clusterValueScore =
       calculateClusterValue(<<>>,
         100 * (IF cluster.relevanceScore >= 0
                THEN Max(0, Min(100, cluster.relevanceScore))
                ELSE DEFAULT_RELEVANCE_SCORE))]

\* Math.min(1, averageScore * 0.7 + bestScore * 0.3), the average weighted.
WeightedRelevance(workingScores, workingWeights) ==
  Min(10000,
      ((7 * SumSeq([i \in DOMAIN workingScores |->
                      workingScores[i] * workingWeights[i]])
        + 3 * MaxSeq(workingScores) * SumSeq(workingWeights)) * 5)
        \div (3 * SumSeq(workingWeights)))

ClusterRelevance(cluster, workingKeywords, contextInfo, hasContext) ==
  IF ~hasContext
  THEN 100 * Max(0, Min(100, IF cluster.relevanceScore > 0
                             THEN cluster.relevanceScore
                             ELSE DEFAULT_RELEVANCE_SCORE))
  ELSE WeightedRelevance(
         [i \in DOMAIN workingKeywords |->
            KeywordScore(workingKeywords[i], contextInfo, hasContext)],
         [i \in DOMAIN workingKeywords |->
            KeywordWeight(workingKeywords[i].searchVolume)])

EnrichedCluster(cluster, sortedKeywords, normalizedRelevance) ==
  [cluster EXCEPT
     !.pillarTopic = selectPillarTopic(sortedKeywords),
     !.keywords = sortedKeywords,
     !.keywordCount = Len(sortedKeywords),
     !.totalSearchVolume = calculateTotalVolume(sortedKeywords),
     !.avgSearchVolume = RoundDiv(calculateTotalVolume(sortedKeywords),
                                  Len(sortedKeywords)),
     !.relevanceScore = RoundDiv(normalizedRelevance, 100),
     !.clusterValueScore = calculateClusterValue(sortedKeywords,
                                                 normalizedRelevance)]

EnrichWorking(cluster, workingKeywords, contextInfo, hasContext) ==
  IF workingKeywords = <<>>
  THEN IF hasContext THEN <<>> ELSE <<EmptiedCluster(cluster)>>
  ELSE <<EnrichedCluster(cluster, SortByVolume(workingKeywords),
                         Max(0, Min(10000,
                           ClusterRelevance(cluster, workingKeywords,
                                            contextInfo, hasContext))))>>

\* A sequence of the enriched cluster, empty where the code returns null.
enrichClusterWithRelevance(cluster, contextInfo, allowRemoval, hasContext) ==
  IF cluster.keywords = <<>>
  THEN IF allowRemoval /\ hasContext THEN <<>> ELSE <<EmptiedCluster(cluster)>>
  ELSE EnrichWorking(cluster,
         IF allowRemoval
         THEN SelectSeq(cluster.keywords,
                        LAMBDA k : ShouldKeep(k, contextInfo, allowRemoval,
                                              hasContext))
         ELSE cluster.keywords,
         contextInfo, hasContext)

\* applyRelevanceScores: what becomes of one enriched cluster.
Processed(enriched, allowRemoval) ==
  IF enriched = <<>> THEN <<>>
  ELSE IF allowRemoval /\ enriched[1].keywordCount < MIN_CLUSTER_SIZE THEN <<>>
  ELSE IF ~allowRemoval /\ enriched[1].keywordCount <= 0 THEN <<>>
  ELSE enriched

ProcessClusters(cl, contextInfo, allowRemoval) ==
  [i \in DOMAIN cl |->
     Processed(enrichClusterWithRelevance(cl[i], contextInfo, allowRemoval,
                                          Cardinality(contextInfo.tokens) > 0),
               allowRemoval)]

RECURSIVE Concat(_)
Concat(seqs) == IF seqs = <<>> THEN <<>> ELSE seqs[1] \o Concat(Tail(seqs))

\* applyRelevanceScores(...).clusters
applyRelevanceScores(cl, websiteContext, allowRemoval) ==
  Concat(ProcessClusters(cl, buildRelevanceContext(websiteContext),
                         allowRemoval))

\* The comparator of sortAndRankClusters: an absent relevanceScore counts 0.
CompareClusters(a, b) ==
  LET scoreDiff == b.clusterValueScore - a.clusterValueScore
      relevanceDiff == Max(0, b.relevanceScore) - Max(0, a.relevanceScore)
      volumeDiff == b.totalSearchVolume - a.totalSearchVolume
  IN IF scoreDiff # 0 THEN scoreDiff
     ELSE IF relevanceDiff # 0 THEN relevanceDiff
     ELSE IF volumeDiff # 0 THEN volumeDiff
     ELSE Len(b.keywords) - Len(a.keywords)

\* [...clusters].sort(comparator): stable.
RECURSIVE SortClusters(_)
SortClusters(cl) ==
  IF cl = <<>> THEN <<>>
  ELSE LET c == cl[Len(cl)]
           sorted == SortClusters(SubSeq(cl, 1, Len(cl) - 1))
       IN SelectSeq(sorted, LAMBDA x : CompareClusters(x, c) <= 0)
          \o <<c>>
          \o SelectSeq(sorted, LAMBDA x : CompareClusters(x, c) > 0)

sortAndRankClusters(cl) ==
  LET sorted == SortClusters(cl)
  IN [index \in DOMAIN sorted |-> [sorted[index] EXCEPT !.rank = index]]

\* findBestClusterForKeyword: the index of the cluster, 0 for null.  The
\* average similarity is in units of 1/72000 (1/1200 over at most 5).
AvgSimilarity(keyword, cluster) ==
  LET topKeywords == SubSeq(cluster.keywords, 1, Min(5, Len(cluster.keywords)))
      totalSimilarity ==
        SumSeq([i \in DOMAIN topKeywords |->
                  calculateSemanticSimilarity(keyword.keyword,
                                              topKeywords[i].keyword)])
  IN IF topKeywords = <<>> THEN -1
     ELSE (60 * totalSimilarity) \div Len(topKeywords)

RECURSIVE FindBest(_, _, _, _, _)
FindBest(keyword, cl, index, bestCluster, bestScore) ==
  IF index > Len(cl) THEN bestCluster
  ELSE LET avgSimilarity == AvgSimilarity(keyword, cl[index])
           better == avgSimilarity > bestScore /\ avgSimilarity > 21600
       IN FindBest(keyword, cl, index + 1,
                   IF better THEN index ELSE bestCluster,
                   IF better THEN avgSimilarity ELSE bestScore)

findBestClusterForKeyword(keyword, cl) == FindBest(keyword, cl, 1, 0, 0)

\* ensureUniqueKeywords, first loop: the keywords of every cluster in turn
\* claim their owner.  owners is the Map as a sequence of entries.
ClaimOwner_Shared(st, cl, clusterIndex, keyword) ==
  [st EXCEPT !.keywords[clusterIndex] = Append(@, keyword)]

ClaimOwner(st, cl, clusterIndex, keyword) ==
  LET normalized == normalizeKeyword(keyword.keyword)
      affinity == calculateSemanticSimilarity(keyword.keyword,
                                              cl[clusterIndex].pillarTopic)
      currentOwner == SelectSeq(st.owners, LAMBDA o : o.normalized = normalized)
      released ==
        IF currentOwner = <<>> THEN st.keywords
        ELSE [st.keywords EXCEPT ![currentOwner[1].clusterIndex] =
                SelectSeq(@, LAMBDA k : normalizeKeyword(k.keyword) # normalized)]
  IN IF normalized = "" THEN st
     ELSE IF currentOwner = <<>> \/ affinity > currentOwner[1].affinity + 24
     THEN [keywords |-> [released EXCEPT ![clusterIndex] = Append(@, keyword)],
           owners |-> Append(SelectSeq(st.owners,
                                       LAMBDA o : o.normalized # normalized),
                             [normalized |-> normalized,
                              clusterIndex |-> clusterIndex,
                              affinity |-> affinity])]
     ELSE st

RECURSIVE ClaimOwners(_, _, _, _)
ClaimOwners(st, cl, clusterIndex, at) ==
  IF clusterIndex > Len(cl) THEN st
  ELSE LET done == at > Len(cl[clusterIndex].keywords)
       IN ClaimOwners(IF done THEN st
                      ELSE ClaimOwner(st, cl, clusterIndex,
                                      cl[clusterIndex].keywords[at]),
                      cl,
                      IF done THEN clusterIndex + 1 ELSE clusterIndex,
                      IF done THEN 1 ELSE at + 1)

\* Second loop: a cluster that kept MIN_CLUSTER_SIZE keywords is built anew
\* and takes over the pillar topic, the non-blank ai strings and a true
\* aiEnhanced; aiPriority, a boolean, is not taken over.
RECURSIVE RebuildClusters(_, _, _, _)
RebuildClusters(cl, owned, index, resultClusters) ==
  IF index > Len(cl) THEN resultClusters
  ELSE LET cluster == cl[index]
           baseCluster == createClusterObject(Len(resultClusters) + 1,
                                              owned[index], cluster.algorithm)
           mergedCluster ==
             [baseCluster EXCEPT
                !.pillarTopic = IF cluster.pillarTopic # ""
                                THEN cluster.pillarTopic ELSE @,
                !.aiDescription = IF cluster.aiDescription # "undefined"
                                     /\ Trim(cluster.aiDescription) # ""
                                  THEN cluster.aiDescription ELSE @,
                !.aiContentStrategy = IF cluster.aiContentStrategy # "undefined"
                                         /\ Trim(cluster.aiContentStrategy) # ""
                                      THEN cluster.aiContentStrategy ELSE @,
                !.aiEnhanced = IF cluster.aiEnhanced THEN TRUE ELSE @]
       IN RebuildClusters(cl, owned, index + 1,
                          IF Len(owned[index]) >= MIN_CLUSTER_SIZE
                          THEN Append(resultClusters, mergedCluster)
                          ELSE resultClusters)

RECURSIVE OrphanKeywords(_, _)
OrphanKeywords(owned, index) ==
  IF index > Len(owned) THEN <<>>
  ELSE (IF Len(owned[index]) >= MIN_CLUSTER_SIZE THEN <<>> ELSE owned[index])
       \o OrphanKeywords(owned, index + 1)

\* Third loop: bestCluster.keywords.push(keyword), and nothing else.
Adopt(resultClusters, keyword, bestCluster) ==
  IF bestCluster # 0
     /\ ~\E i \in DOMAIN resultClusters[bestCluster].keywords :
           normalizeKeyword(resultClusters[bestCluster].keywords[i].keyword)
             = normalizeKeyword(keyword.keyword)
  THEN [resultClusters EXCEPT ![bestCluster].keywords = Append(@, keyword)]
  ELSE resultClusters

RECURSIVE AdoptOrphans(_, _)
AdoptOrphans(resultClusters, orphanKeywords) ==
  IF orphanKeywords = <<>> THEN resultClusters
  ELSE AdoptOrphans(
         Adopt(resultClusters, orphanKeywords[1],
               findBestClusterForKeyword(orphanKeywords[1], resultClusters)),
         Tail(orphanKeywords))

AdoptIfAny(resultClusters, orphanKeywords) ==
  IF orphanKeywords # <<>> /\ resultClusters # <<>>
  THEN AdoptOrphans(resultClusters, orphanKeywords)
  ELSE resultClusters

FromOwned(cl, owned) ==
  AdoptIfAny(RebuildClusters(cl, owned, 1, <<>>), OrphanKeywords(owned, 1))

ensureUniqueKeywords(cl) ==
  IF cl = <<>> THEN <<>>
  ELSE FromOwned(cl, ClaimOwners([keywords |-> [i \in DOMAIN cl |-> <<>>],
                                  owners |-> <<>>], cl, 1, 1).keywords)

\* fallbackClustering: the groups in the order their first words are met.
FirstWord(keyword) == Words(ToLowerCase(keyword.keyword))[1]

RECURSIVE FallbackGroups(_, _, _)
FallbackGroups(keywords, at, clustersSoFar) ==
  IF at > Len(keywords) THEN clustersSoFar
  ELSE LET firstWord == FirstWord(keywords[at])
           group == SelectSeq(keywords, LAMBDA k : FirstWord(k) = firstWord)
       IN FallbackGroups(keywords, at + 1,
            IF (\A j \in 1 .. at - 1 : FirstWord(keywords[j]) # firstWord)
               /\ Len(group) >= MIN_CLUSTER_SIZE
            THEN Append(clustersSoFar,
                        createClusterObject(Len(clustersSoFar) + 1, group,
                                            "fallback"))
            ELSE clustersSoFar)

\* The keywords no group has used, as one cluster after the groups.
WithRemaining(grouped, remaining) ==
  IF remaining # <<>>
  THEN Append(grouped, createClusterObject(Len(grouped) + 1, remaining,
                                           "fallback-misc"))
  ELSE grouped

WithMisc(keywords, grouped) ==
  WithRemaining(grouped,
    SelectSeq(keywords, LAMBDA k :
      k.keyword \notin {u.keyword : u \in Range(FlattenKeywords(grouped))}))

fallbackClustering(keywords) ==
  WithMisc(keywords, FallbackGroups(keywords, 1, <<>>))

\* applyClusterNarratives: a missing or blank ai text gets the fallback text.
applyClusterNarratives(cl) ==
  [i \in DOMAIN cl |->
     [cl[i] EXCEPT
        !.aiDescription = IF @ = "undefined" \/ Trim(@) = ""
                          THEN "fallback description" ELSE @,
        !.aiContentStrategy = IF @ = "undefined" \/ Trim(@) = ""
                              THEN "fallback strategy" ELSE @]]

\* What the AI service can answer.
NoNames == <<>>

RegroupResponses ==
  {[kind |-> k, improvedNames |-> NoNames, hasPriority |-> FALSE,
    priorityClusters |-> {}] : k \in AiFailures}
  \cup {[kind |-> "ok", improvedNames |-> (1 :> "Technical SEO"),
         hasPriority |-> TRUE, priorityClusters |-> {1}],
        [kind |-> "ok", improvedNames |-> (2 :> ""),
         hasPriority |-> FALSE, priorityClusters |-> {}]}

ScrutinizeResponses ==
  {[kind |-> k, clusterRenames |-> NoNames, mergeSuggestions |-> <<>>,
    keywordAssignments |-> <<>>] : k \in AiFailures}
  \cup {[kind |-> "ok", clusterRenames |-> (1 :> "Audit Hub ") @@ (2 :> "  "),
         mergeSuggestions |-> <<>>,
         keywordAssignments |-> <<[keyword |-> "SEO Audit ", cluster |-> 2]>>],
        [kind |-> "ok", clusterRenames |-> NoNames,
         mergeSuggestions |-> <<<<1, 2>>>>,
         keywordAssignments |-> <<[keyword |-> "new keyword", cluster |-> 1]>>],
        [kind |-> "ok", clusterRenames |-> NoNames, mergeSuggestions |-> <<<<2>>>>,
         keywordAssignments |-> <<[keyword |-> "seo tools", cluster |-> 9]>>]}

EnhanceResponses ==
  {[kind |-> k, pillarTopic |-> "", description |-> "undefined",
    contentStrategy |-> "undefined"] : k \in AiFailures}
  \cup {[kind |-> "ok", pillarTopic |-> "Growth Playbook",
         description |-> "what the cluster is", contentStrategy |-> "what to write"],
        [kind |-> "ok", pillarTopic |-> "",
         description |-> "undefined", contentStrategy |-> "what to write"]}

\* The websiteContext of a call, by its title: none, or one that names seo.  useAI stands for `useAI && process.env.GEMINI_API_KEY`.
NoContext == [title |-> ""]
SiteContext == [title |-> "seo"]

DefaultOptions ==
  [minClusterSize |-> MIN_CLUSTER_SIZE, useAI |-> TRUE, websiteContext |-> NoContext]

\* clusterKeywords before its first await: the two returns of the input
\* validation (path "none" when it goes on to the algorithm).
SmallResult(singleCluster, relevanceResult) ==
  IF Len(relevanceResult) > 0 THEN relevanceResult ELSE <<singleCluster>>

SingleCluster(singleCluster, websiteContext) ==
  SmallResult(singleCluster,
              applyRelevanceScores(<<singleCluster>>, websiteContext, TRUE))

SmallInput(keywords, options) ==
  IF keywords = <<>> THEN [path |-> "empty", value |-> <<>>]
  ELSE IF Len(keywords) < options.minClusterSize
  THEN [path |-> "small",
        value |-> SingleCluster(createClusterObject(1, keywords, "single"),
                                options.websiteContext)]
  ELSE [path |-> "none", value |-> <<>>]

\* From the final safety pass to the return.
FinalPass(cl, websiteContext) ==
  applyClusterNarratives(
    sortAndRankClusters(
      applyRelevanceScores(ensureUniqueKeywords(cl), websiteContext, FALSE)))

\* From the clusters the algorithm gave to the relevance filter.
Prepared(out, options) ==
  applyRelevanceScores(
    SelectSeq(
      ensureUniqueKeywords(
        SelectSeq(out, LAMBDA c : Len(c.keywords) >= options.minClusterSize)),
      LAMBDA c : Len(c.keywords) >= options.minClusterSize),
    options.websiteContext, TRUE)

\* ... and on to the AI block or to a return.
AfterRelevance(relevanceResult) ==
  IF Len(relevanceResult) = 0
  THEN /\ returned' = <<>>
       /\ returnPath' = "irrelevant"
       /\ cpc' = "returned"
       /\ clusters' = relevanceResult
  ELSE /\ clusters' = sortAndRankClusters(relevanceResult)
       /\ IF ckOptions.useAI
          THEN /\ cpc' = "regroup"
               /\ UNCHANGED <<returned, returnPath>>
          ELSE /\ returned' = FinalPass(clusters', ckOptions.websiteContext)
               /\ returnPath' = "normal"
               /\ cpc' = "returned"

\* clusterKeywords resumes after `await clusterWith...(keywordData)`, which
\* threw or gave the clusters `out`, and runs to the AI block or to a return.
\* (The second clustering is for more than 20 keywords.)
AlgorithmDone(threw, out) ==
  /\ cpc = "algorithm"
  /\ IF threw
     THEN /\ returned' = fallbackClustering(input)
          /\ returnPath' = "fallback"
          /\ cpc' = "returned"
          /\ UNCHANGED clusters
     ELSE AfterRelevance(Prepared(out, ckOptions))
  /\ prevClusters' = clusters
  /\ UNCHANGED <<input, ckOptions, enhanceIdx, lastAi>>
  /\ UNCHANGED notClusterVars

\* One call of ensureUniqueKeywords.
EnsureUniqueCall ==
  /\ upc = "call"
  /\ unique' = ensureUniqueKeywords(given)
  /\ upc' = "returned"
  /\ UNCHANGED given
  /\ UNCHANGED notUniqueVars

\* clusterKeywords resumes after `await gemini.analyzeAndRegroupClusters`.
RegroupDone(r) ==
  /\ cpc = "regroup"
  /\ clusters' = AnalyzeAndRegroupClusters(clusters, r)
  /\ cpc' = "scrutinize"
  /\ prevClusters' = clusters
  /\ lastAi' = [request |-> "regroup", outcome |-> r.kind]
  /\ UNCHANGED <<input, ckOptions, returned, returnPath, enhanceIdx>>
  /\ UNCHANGED notClusterVars

\* ... after `await gemini.scrutinizeClusterTopics`, and enters the loop;
\* with no cluster left the final pass follows at once.
ScrutinizeDone(r) ==
  /\ cpc = "scrutinize"
  /\ clusters' = ScrutinizeClusterTopics(clusters, input, r)
  /\ IF Len(clusters') > 0
     THEN /\ cpc' = "enhance"
          /\ enhanceIdx' = 1
          /\ UNCHANGED <<returned, returnPath>>
     ELSE /\ cpc' = "returned"
          /\ returned' = FinalPass(clusters', ckOptions.websiteContext)
          /\ returnPath' = "ai"
          /\ UNCHANGED enhanceIdx
  /\ prevClusters' = clusters
  /\ lastAi' = [request |-> "scrutinize", outcome |-> r.kind]
  /\ UNCHANGED <<input, ckOptions>>
  /\ UNCHANGED notClusterVars

\* ... after `await gemini.enhanceClusterWithAI(clusters[i], ...)`; after the
\* last cluster the final pass follows and clusterKeywords returns.
\* `clusters` keeps the value the AI block ended with.
EnhanceDone(r) ==
  /\ cpc = "enhance"
  /\ clusters' = [clusters EXCEPT ![enhanceIdx] = EnhanceClusterWithAI(@, r)]
  /\ IF enhanceIdx < Len(clusters)
     THEN /\ enhanceIdx' = enhanceIdx + 1
          /\ UNCHANGED <<cpc, returned, returnPath>>
     ELSE /\ cpc' = "returned"
          /\ returned' = FinalPass(clusters', ckOptions.websiteContext)
          /\ returnPath' = "ai"
          /\ UNCHANGED enhanceIdx
  /\ prevClusters' = clusters
  /\ lastAi' = [request |-> "enhance", outcome |-> r.kind]
  /\ UNCHANGED <<input, ckOptions>>
  /\ UNCHANGED notClusterVars

----------------------------------------------------------------------------
(* scrapeWebsite: one action per resumption, from the strategy run or the  *)
(* sleep that has completed to the next await, the return or the throw.    *)
(* A strategy run gives -1 (it threw) or the number of pages it returned.  *)

Strategies == {"auto", "playwright", "axios"}
RunOutcomes == -1 .. MaxPagesFound
NullResult == [strategy |-> "null", pages |-> 0]

\* if (!result || result.pages.length === 0) throw ...; return result
ScrapeEnd(res) ==
  IF res = NullResult \/ res.pages = 0 THEN "threw" ELSE "returned"

\* After the Playwright loop: the Axios loop runs if (!result && ...).
AfterPlaywright(res) ==
  IF res = NullResult /\ scrapeOptions.strategy \in {"auto", "axios"}
  THEN "axios"
  ELSE ScrapeEnd(res)

\* One pass of a loop body has ended with `attempt` counted up or the loop
\* left by break: the position reached and the value of attempt there.
LoopStep(tag, res, broke) ==
  IF ~broke /\ attempt < scrapeOptions.retryAttempts
  THEN [spc |-> tag, attempt |-> attempt + 1]
  ELSE IF tag = "playwright"
  THEN [spc |-> AfterPlaywright(res), attempt |-> 1]
  ELSE [spc |-> ScrapeEnd(res), attempt |-> attempt]

\* result = await scrapeWithPlaywright(...) / scrapeWithAxios(...) has
\* returned outcome pages (>= 0) or thrown (-1).
RunDone(tag, outcome) ==
  /\ spc = tag
  /\ callLog' = Append(callLog, [strategy |-> tag, pages |-> outcome])
  /\ IF outcome >= 0
     THEN /\ result' = [strategy |-> tag, pages |-> outcome]
          /\ spc' = LoopStep(tag, result', outcome > 0).spc
          /\ attempt' = LoopStep(tag, result', outcome > 0).attempt
     ELSE /\ UNCHANGED result
          /\ IF attempt < scrapeOptions.retryAttempts
             THEN /\ spc' = IF tag = "playwright" THEN "sleepPlaywright"
                          ELSE "sleepAxios"
                  /\ UNCHANGED attempt
             ELSE /\ spc' = LoopStep(tag, result, FALSE).spc
                  /\ attempt' = LoopStep(tag, result, FALSE).attempt
  /\ UNCHANGED scrapeOptions
  /\ UNCHANGED notScrapeVars

SleepDone_Restart ==
  /\ spc \in {"sleepPlaywright", "sleepAxios"}
  /\ spc' = IF spc = "sleepPlaywright" THEN "playwright" ELSE "axios"
  /\ attempt' = 1
  /\ UNCHANGED <<scrapeOptions, result, callLog>>
  /\ UNCHANGED notScrapeVars

\* await sleep(RETRY_DELAY * attempt) has ended: the next attempt starts.
SleepDone ==
  /\ spc \in {"sleepPlaywright", "sleepAxios"}
  /\ spc' = IF spc = "sleepPlaywright" THEN "playwright" ELSE "axios"
  /\ attempt' = attempt + 1
  /\ UNCHANGED <<scrapeOptions, result, callLog>>
  /\ UNCHANGED notScrapeVars

----------------------------------------------------------------------------
(* One crawl: the loop of scrapeWithPlaywright and of scrapeWithAxios.  One *)
(* action per page load that has ended, up to the start of the next load   *)
(* or the return.                                                          *)

StartUrl == "https://site.test/"

\* The hrefs a first page can hold, resolved against it (all of the start
\* url's host).
RawLinks ==
  {"https://site.test/", "https://site.test/a", "https://site.test/a/",
   "https://site.test/a#top", "https://site.test/b", "https://site.test/c"}

\* normalizeUrl: the hash removed, then one trailing slash removed.
normalizeUrl(url) ==
  CASE url = "https://site.test/" -> "https://site.test"
    [] url = "https://site.test/a/" -> "https://site.test/a"
    [] url = "https://site.test/a#top" -> "https://site.test/a"
    [] OTHER -> url

\* [...new Set(links)]: the first occurrences, in order.
RECURSIVE Unique(_)
Unique(links) ==
  IF links = <<>> THEN <<>>
  ELSE LET front == SubSeq(links, 1, Len(links) - 1) IN
       IF \E i \in DOMAIN front : front[i] = Last(links)
       THEN Unique(front)
       ELSE Append(Unique(front), Last(links))

\* array.slice(0, n) for n >= 0
Slice(s, n) == SubSeq(s, 1, Min(n, Len(s)))

\* The links a loaded first page adds to pagesToVisit.
uniqueLinks(links) ==
  Slice(Unique([i \in DOMAIN links |-> normalizeUrl(links[i])]),
        crawlOptions.maxPages - 1)

\* the loop condition's second half: visitedUrls.size < maxPages
CanVisit(visited) == Cardinality(visited) < crawlOptions.maxPages

NextVisit_NoSkip(queue, visited) ==
  IF queue = <<>> \/ ~CanVisit(visited)
  THEN [crpc |-> "returned", url |-> "", queue |-> queue]
  ELSE [crpc |-> "visit", url |-> Head(queue), queue |-> Tail(queue)]

\* The loop from its head to the next load: urls already visited are shifted
\* off and skipped.  The position reached, with the queue left.
RECURSIVE NextVisit(_, _)
NextVisit(queue, visited) ==
  IF queue = <<>> \/ ~CanVisit(visited)
  THEN [crpc |-> "returned", url |-> "", queue |-> queue]
  ELSE IF Head(queue) \in visited THEN NextVisit(Tail(queue), visited)
  ELSE [crpc |-> "visit", url |-> Head(queue), queue |-> Tail(queue)]

PageOutcomes == {"error", "status", "empty", "ok"}

\* The load of currentUrl has ended: it threw, answered a status >= 400,
\* gave a page without words or a page with words; links are the hrefs of
\* the page.
VisitDone(outcome, links) ==
  LET loaded == outcome \in {"empty", "ok"}
      queue == IF loaded /\ crawlOptions.followLinks /\ Cardinality(visitedUrls) = 1
               THEN pagesToVisit \o uniqueLinks(links)
               ELSE pagesToVisit
      next == NextVisit(queue, visitedUrls)
  IN
  /\ crpc = "visit"
  /\ crawlPages' = IF outcome = "ok" THEN Append(crawlPages, currentUrl)
                   ELSE crawlPages
  /\ crpc' = next.crpc
  /\ currentUrl' = next.url
  /\ pagesToVisit' = next.queue
  /\ visitedUrls' = IF next.crpc = "visit" THEN visitedUrls \cup {next.url}
                    ELSE visitedUrls
  /\ fetchLog' = IF next.crpc = "visit" THEN Append(fetchLog, next.url)
                 ELSE fetchLog
  /\ UNCHANGED crawlOptions
  /\ UNCHANGED notCrawlVars

----------------------------------------------------------------------------
(* scrapeWithPlaywright around its crawl: the try block's awaits before    *)
(* the loop (launch, newContext, route, newPage), the loop (the crawl      *)
(* above), and the finally block's `await browser.close()`.  That await is *)
(* in flight at position "close" and when the crawl has returned.          *)

\* browser = await chromium.launch(...): on a throw `browser` is still null
\* and the finally block closes nothing.
LaunchDone(ok) ==
  /\ ppc = "launch"
  /\ browser' = IF ok THEN "open" ELSE browser
  /\ ppc' = IF ok THEN "newContext" ELSE "threw"
  /\ pwError' = ~ok
  /\ UNCHANGED notBrowserVars

SetupDone_Leak(ok) ==
  /\ ppc \in {"newContext", "route"}
  /\ ppc' = IF ~ok THEN "threw" ELSE IF ppc = "newContext" THEN "route" ELSE "newPage"
  /\ pwError' = ~ok
  /\ UNCHANGED browser
  /\ UNCHANGED notBrowserVars

\* await browser.newContext(...) and await context.route(...): a throw
\* leaves the try block for the finally block.
SetupDone(ok) ==
  /\ ppc \in {"newContext", "route"}
  /\ ppc' = IF ~ok THEN "close" ELSE IF ppc = "newContext" THEN "route" ELSE "newPage"
  /\ pwError' = ~ok
  /\ UNCHANGED browser
  /\ UNCHANGED notBrowserVars

\* await context.newPage(): then the loop runs up to its first page.goto.
NewPageDone(ok) ==
  /\ ppc = "newPage"
  /\ ppc' = IF ok THEN "crawl" ELSE "close"
  /\ pwError' = ~ok
  /\ IF ok
     THEN /\ visitedUrls' = {normalizeUrl(StartUrl)}
          /\ currentUrl' = normalizeUrl(StartUrl)
          /\ crpc' = "visit"
          /\ fetchLog' = <<normalizeUrl(StartUrl)>>
          /\ UNCHANGED <<crawlOptions, pagesToVisit, crawlPages>>
     ELSE UNCHANGED crawlVars
  /\ UNCHANGED browser
  /\ UNCHANGED <<serverVars, histVars, clusterVars, scrapeVars, uniqueVars, callVars,
                 splitVars>>

\* finally { if (browser) await browser.close().catch(console.error) }: the
\* close has resolved, or it has rejected (the browser was gone already);
\* then the function returns scrapedContent or the exception goes on.
CloseDone(ok) ==
  /\ ppc = "close" \/ (ppc = "crawl" /\ crpc = "returned")
  /\ browser' = IF ok THEN "closed" ELSE "disconnected"
  /\ ppc' = IF pwError THEN "threw" ELSE "returned"
  /\ UNCHANGED pwError
  /\ UNCHANGED notBrowserVars

----------------------------------------------------------------------------
(* splitCluster.  kmeans is awaited as one step; what it gives is the       *)
(* array result.clusters, one sub-cluster id per keyword.                  *)

\* Math.min(3, Math.floor(cluster.keywords.length / 5))
NumSubClusters(n) == Min(3, n \div 5)

\* subClusterMap: the sub-cluster ids in the order of their first keyword,
\* each with its keywords in the cluster's order.
SubClusterIds(assignment) ==
  LET used == {assignment[i] : i \in DOMAIN assignment}
      first(g) == CHOOSE i \in DOMAIN assignment :
                    assignment[i] = g /\ \A j \in 1 .. i - 1 : assignment[j] # g
  IN [r \in 1 .. Cardinality(used) |->
        CHOOSE g \in used :
          Cardinality({h \in used : first(h) < first(g)}) = r - 1]

SubClusterKeywords(keywords, assignment, g) ==
  LET at(k) == CHOOSE i \in DOMAIN keywords : keywords[i] = k
  IN SelectSeq(keywords, LAMBDA k : assignment[at(k)] = g)

\* for (const keywords of subClusterMap.values()) if (keywords.length >=
\* MIN_CLUSTER_SIZE) subClusters.push(createClusterObject(id++, ...))
RECURSIVE SubClusters(_, _, _, _, _)
SubClusters(keywords, assignment, ids, id, subClusters) ==
  IF ids = <<>> THEN subClusters
  ELSE LET group == SubClusterKeywords(keywords, assignment, ids[1])
           kept == Len(group) >= MIN_CLUSTER_SIZE
       IN SubClusters(keywords, assignment, Tail(ids),
                      IF kept THEN id + 1 ELSE id,
                      IF kept
                      THEN Append(subClusters,
                                  createClusterObject(id, group, "hybrid-split"))
                      ELSE subClusters)

\* return subClusters.length > 0 ? subClusters : [cluster]
SplitResult(cluster, subClusters) ==
  IF Len(subClusters) > 0 THEN subClusters ELSE <<cluster>>

splitCluster(cluster, assignment) ==
  IF Len(cluster.keywords) < 6 THEN <<cluster>>
  ELSE SplitResult(cluster,
                   SubClusters(cluster.keywords, assignment,
                               SubClusterIds(assignment), cluster.id * 10, <<>>))

\* splitCluster from its call to its return; kmeans gave result.clusters.
SplitDone(assignment) ==
  /\ kpc = "kmeans"
  /\ splitResult' = splitCluster(splitArg, assignment)
  /\ kpc' = "returned"
  /\ UNCHANGED splitArg
  /\ UNCHANGED notSplitVars

----------------------------------------------------------------------------
(* processResearch's call of scrapeWebsite.  The request body's options    *)
(* reach processResearch as they were sent (the POST handler and           *)
(* validateInput read url, country and language only).  An option is a     *)
(* sequence: empty when the body does not carry it, else its one value.    *)

NoOptions == [scrapeStrategy |-> <<>>, maxPages |-> <<>>, followLinks |-> <<>>]

\* The object literal passed to scraperUnified.scrapeWebsite:
\*   strategy: options.scrapeStrategy || 'auto',
\*   maxPages: options.maxPages || 20,      (20 replaces an absent value and 0)
\*   followLinks: options.followLinks !== false
ScraperOptions(options) ==
  [strategy |-> IF options.scrapeStrategy \in {<<>>, <<"">>}
                THEN "auto" ELSE options.scrapeStrategy[1],
   maxPages |-> IF options.maxPages \in {<<>>, <<0>>}
                THEN 20 ELSE options.maxPages[1],
   followLinks |-> options.followLinks # <<FALSE>>]

\* const content = await scraperUnified.scrapeWebsite(url, {...})
CallScraper ==
  /\ jpc = "scrape"
  /\ scraperCall' = ScraperOptions(reqOptions)
  /\ jpc' = "called"
  /\ UNCHANGED reqOptions
  /\ UNCHANGED notCallVars

----------------------------------------------------------------------------
(* Specifications *)

NoJobs == [id \in {} |-> 0]

InitServer ==
  /\ now = 0
  /\ nextSweepAt = SWEEP_INTERVAL_MS
  /\ requestCounts = [ip \in IPs |-> <<>>]
  /\ jobs = {}
  /\ job = NoJobs
  /\ pc = NoJobs
  /\ resp = NoResp
  /\ admitLog = [ip \in IPs |-> <<>>]
  /\ lastReject = [ip \in IPs |-> NoReject]
  /\ deleted = {}
  /\ sweptAge = NoJobs
  /\ lastSweepAt = -1
  /\ progressLog = NoJobs
  /\ started = NoJobs
  /\ afterCancel = {}
  /\ fatal = NoJobs
  /\ sources = NoJobs
  /\ aiFailed = {}
  /\ nticks = 0

InitNoClustering ==
  /\ input = <<>>
  /\ ckOptions = DefaultOptions
  /\ clusters = <<>>
  /\ cpc = "idle"
  /\ returned = <<>>
  /\ returnPath = "none"
  /\ enhanceIdx = 0
  /\ prevClusters = <<>>
  /\ lastAi = [request |-> "none", outcome |-> "none"]

InitNoScrape ==
  /\ scrapeOptions = [strategy |-> "auto", retryAttempts |-> RETRY_ATTEMPTS]
  /\ spc = "idle"
  /\ attempt = 0
  /\ result = NullResult
  /\ callLog = <<>>

InitNoCrawl ==
  /\ crawlOptions = [maxPages |-> 1, followLinks |-> TRUE]
  /\ visitedUrls = {}
  /\ pagesToVisit = <<>>
  /\ currentUrl = ""
  /\ crawlPages = <<>>
  /\ crpc = "idle"
  /\ fetchLog = <<>>

InitNoUnique ==
  /\ given = <<>>
  /\ unique = <<>>
  /\ upc = "idle"

InitNoCall ==
  /\ reqOptions = NoOptions
  /\ scraperCall = NoOptions
  /\ jpc = "idle"

InitNoSplit ==
  /\ splitArg = <<>>
  /\ splitResult = <<>>
  /\ kpc = "idle"

InitNoBrowser ==
  /\ browser = "null"
  /\ ppc = "idle"
  /\ pwError = FALSE

Init ==
  /\ InitServer /\ InitNoClustering /\ InitNoScrape /\ InitNoCrawl
  /\ InitNoUnique /\ InitNoCall /\ InitNoSplit /\ InitNoBrowser

Admitted == Len(admitLog["ipA"]) + Len(admitLog["ipB"])

\* Ids a client may name: malformed (0) and every job ever created.
RequestIds == 0 .. Cardinality(DOMAIN job)

\* The job lifecycle: requests and background tasks, the clock standing still.
Next ==
  \/ \E url \in UrlInputs : Admitted < MaxJobs /\ Post("ipA", url)
  \/ \E id \in RequestIds : Get(id)
  \/ \E id \in RequestIds, format \in {"csv", "xml"} : Export(id, format)
  \/ \E id \in RequestIds : Delete(id)
  \/ \E id \in DOMAIN pc, isValid \in BOOLEAN : ValidateDone(id, isValid)
  \/ \E id \in DOMAIN pc, pages \in Outcomes : ScrapeDone(id, pages)
  \/ \E id \in DOMAIN pc, seeds \in Outcomes : ExtractDone(id, seeds)
  \/ \E id \in DOMAIN pc, keywords \in Outcomes : MetricsDone(id, keywords)
  \/ \E id \in DOMAIN pc, n \in Outcomes : ClusterDone(id, n)

Spec == Init /\ [][Next]_vars

\* The rate limiter: requests arriving as the clock advances.
NextRate ==
  \/ \E ip \in IPs : Admitted < MaxPosts /\ Post(ip, "valid")
  \/ \E d \in RateDeltas : nticks < MaxRateTicks /\ CountedTick(d)
  \/ \E ip \in IPs : RetryWait(ip)
  \/ SweepTimer

SpecRate == Init /\ [][NextRate]_vars

\* Retention: jobs created and deleted over a day and more of hourly sweeps.
NextSweep ==
  \/ Cardinality(DOMAIN job) < MaxSweepJobs /\ Post("ipA", "valid")
  \/ \E id \in DOMAIN job : Delete(id)
  \/ now < MaxHours * HOUR_MS /\ Tick(HOUR_MS)
  \/ SweepTimer

SpecSweep == Init /\ [][NextSweep]_vars

\* The clusters as clusterKeywords holds them when the AI block begins: every
\* keyword in exactly one cluster, at least MIN_CLUSTER_SIZE keywords in each,
\* the keywords of a cluster by descending volume, ranks 1, 2, ... in order.
InitialClusters(k, owner) ==
  sortAndRankClusters(applyRelevanceScores(
    [g \in 1 .. k |->
       createClusterObject(g, SelectSeq(keywordData,
                                        LAMBDA kw : \E i \in 1 .. MaxKeywords :
                                           keywordData[i] = kw /\ owner[i] = g),
                           "hybrid")],
    DefaultOptions.websiteContext, TRUE))

InitCluster ==
  /\ InitServer
  /\ \E k \in 1 .. MaxClusters :
       \E owner \in [1 .. MaxKeywords -> 1 .. k] :
         /\ \A g \in 1 .. k :
              Cardinality({i \in 1 .. MaxKeywords : owner[i] = g}) >= MIN_CLUSTER_SIZE
         /\ clusters = InitialClusters(k, owner)
  /\ input = keywordData
  /\ ckOptions = DefaultOptions
  /\ cpc = "regroup"
  /\ returned = <<>>
  /\ returnPath = "none"
  /\ enhanceIdx = 0
  /\ prevClusters = clusters
  /\ lastAi = [request |-> "none", outcome |-> "none"]
  /\ InitNoScrape
  /\ InitNoCrawl
  /\ InitNoUnique /\ InitNoCall /\ InitNoSplit /\ InitNoBrowser

NextCluster ==
  \/ \E r \in RegroupResponses : RegroupDone(r)
  \/ \E r \in ScrutinizeResponses : ScrutinizeDone(r)
  \/ \E r \in EnhanceResponses : EnhanceDone(r)

SpecCluster == InitCluster /\ [][NextCluster]_vars

\* clusterKeywords has been called and has returned from its input
\* validation or awaits the clustering algorithm.
InitRun ==
  /\ InitServer
  /\ \E n \in 0 .. MaxKeywords : input = SubSeq(keywordData, 1, n)
  /\ ckOptions \in [minClusterSize : 1 .. MaxMinClusterSize, useAI : BOOLEAN,
                    websiteContext : {NoContext, SiteContext}]
  /\ clusters = <<>>
  /\ cpc = IF SmallInput(input, ckOptions).path = "none" THEN "algorithm"
           ELSE "returned"
  /\ returned = SmallInput(input, ckOptions).value
  /\ returnPath = SmallInput(input, ckOptions).path
  /\ enhanceIdx = 0
  /\ prevClusters = <<>>
  /\ lastAi = [request |-> "none", outcome |-> "none"]
  /\ InitNoScrape
  /\ InitNoCrawl
  /\ InitNoUnique /\ InitNoCall /\ InitNoSplit /\ InitNoBrowser

\* The clusters of the given groups of keywords.
Built(groups) ==
  [i \in DOMAIN groups |->
     createClusterObject(groups[i].id, groups[i].keywords, "hybrid")]

\* What a clustering algorithm can give for the input: up to MaxClusters
\* clusters, a keyword in one of them or in none (noise), the first keyword
\* in every cluster when shared.
AlgorithmOutput(keywords, owner, shared) ==
  Built(SelectSeq(
    [g \in 1 .. MaxClusters |->
       [id |-> g,
        keywords |->
          SelectSeq(keywords, LAMBDA kw : \E i \in DOMAIN keywords :
                      /\ keywords[i] = kw
                      /\ owner[i] = g \/ (shared /\ i = 1))]],
    LAMBDA group : group.keywords # <<>>))

NextRun ==
  \/ AlgorithmDone(TRUE, <<>>)
  \/ \E owner \in [DOMAIN input -> 0 .. MaxClusters], shared \in BOOLEAN :
       AlgorithmDone(FALSE, AlgorithmOutput(input, owner, shared))
  \/ \E r \in RegroupResponses : RegroupDone(r)
  \/ \E r \in ScrutinizeResponses : ScrutinizeDone(r)
  \/ \E r \in EnhanceResponses : EnhanceDone(r)

SpecRun == InitRun /\ [][NextRun]_vars

\* ensureUniqueKeywords is about to be called with two clusters A and B over
\* the first MaxGiven keywords: a keyword in A, in B, in both or in neither;
\* the clusters as createClusterObject builds them or, when ranked, as the
\* AI block leaves them, and with a pillar topic of their own when named.
PillarNames == <<"seo", "marketing">>

Named(scored, named) ==
  [i \in DOMAIN scored |->
     IF named[scored[i].id]
     THEN [scored[i] EXCEPT !.pillarTopic = PillarNames[scored[i].id]]
     ELSE scored[i]]

GivenClusters(member, named, ranked) ==
  Named(IF ranked
        THEN sortAndRankClusters(
               applyRelevanceScores(
                 Built(SelectSeq(
                   [g \in DOMAIN PillarNames |->
                      [id |-> g,
                       keywords |->
                         SelectSeq(keywordData, LAMBDA kw : \E i \in 1 .. MaxGiven :
                                     keywordData[i] = kw /\ g \in member[i])]],
                   LAMBDA group : group.keywords # <<>>)),
                 NoContext, FALSE))
        ELSE Built(SelectSeq(
               [g \in DOMAIN PillarNames |->
                  [id |-> g,
                   keywords |->
                     SelectSeq(keywordData, LAMBDA kw : \E i \in 1 .. MaxGiven :
                                 keywordData[i] = kw /\ g \in member[i])]],
               LAMBDA group : group.keywords # <<>>)),
        named)

InitUnique ==
  /\ InitServer
  /\ InitNoClustering
  /\ InitNoScrape
  /\ InitNoCrawl
  /\ InitNoCall /\ InitNoSplit /\ InitNoBrowser
  /\ \E member \in [1 .. MaxGiven -> SUBSET DOMAIN PillarNames],
        named \in [DOMAIN PillarNames -> BOOLEAN], ranked \in BOOLEAN :
       given = GivenClusters(member, named, ranked)
  /\ unique = <<>>
  /\ upc = "call"

NextUnique == EnsureUniqueCall

SpecUnique == InitUnique /\ [][NextUnique]_vars


\* scrapeWebsite has been called with a valid url and awaits its first
\* strategy run.
InitScrape ==
  /\ InitServer
  /\ InitNoClustering
  /\ scrapeOptions \in [strategy : Strategies, retryAttempts : 1 .. MaxRetryAttempts]
  /\ spc = IF scrapeOptions.strategy = "axios" THEN "axios" ELSE "playwright"
  /\ attempt = 1
  /\ result = NullResult
  /\ callLog = <<>>
  /\ InitNoCrawl
  /\ InitNoUnique /\ InitNoCall /\ InitNoSplit /\ InitNoBrowser

NextScrape ==
  \/ \E outcome \in RunOutcomes : RunDone("playwright", outcome)
  \/ \E outcome \in RunOutcomes : RunDone("axios", outcome)
  \/ SleepDone

SpecScrape == InitScrape /\ [][NextScrape]_vars

\* A crawl has taken the start url off pagesToVisit and awaits its load.
InitCrawl ==
  /\ InitServer
  /\ InitNoClustering
  /\ InitNoScrape
  /\ crawlOptions \in [maxPages : 1 .. MaxPagesOption, followLinks : BOOLEAN]
  /\ visitedUrls = {normalizeUrl(StartUrl)}
  /\ pagesToVisit = <<>>
  /\ currentUrl = normalizeUrl(StartUrl)
  /\ crawlPages = <<>>
  /\ crpc = "visit"
  /\ fetchLog = <<normalizeUrl(StartUrl)>>
  /\ InitNoUnique /\ InitNoCall /\ InitNoSplit /\ InitNoBrowser

LinkLists == UNION {[1 .. n -> RawLinks] : n \in 0 .. MaxLinks}

NextCrawl ==
  \E outcome \in PageOutcomes, links \in LinkLists : VisitDone(outcome, links)

SpecCrawl == InitCrawl /\ [][NextCrawl]_vars

\* The request bodies offered: every option absent or present, maxPages
\* around 0 and around 100.
Optional(values) == {<<>>} \cup {<<v>> : v \in values}
MaxPagesRequests == (-MaxPagesBelow .. MaxPagesOption) \cup (100 .. 100 + MaxPagesAbove)

InitCall ==
  /\ InitServer
  /\ InitNoClustering
  /\ InitNoScrape
  /\ InitNoCrawl
  /\ InitNoUnique
  /\ InitNoSplit /\ InitNoBrowser
  /\ reqOptions \in [scrapeStrategy : Optional({"", "playwright", "axios"}),
                     maxPages : Optional(MaxPagesRequests),
                     followLinks : Optional(BOOLEAN)]
  /\ scraperCall = NoOptions
  /\ jpc = "scrape"

NextCall == CallScraper

SpecCall == InitCall /\ [][NextCall]_vars


\* The clusters offered to splitCluster: the first n keywords of a research
\* with more keywords (two-word phrases, none containing another, volumes
\* descending).
SplitKeywordNames ==
  KeywordNames \o <<"email outreach", "site speed", "page titles", "alt text">>

SplitKeywords(n) ==
  [i \in 1 .. n |->
     [keyword |-> SplitKeywordNames[i],
      searchVolume |-> (Len(SplitKeywordNames) + 1 - i) * 100]]

InitSplit ==
  /\ InitServer
  /\ InitNoClustering
  /\ InitNoScrape
  /\ InitNoCrawl
  /\ InitNoUnique
  /\ InitNoCall
  /\ InitNoBrowser
  /\ \E n \in MIN_CLUSTER_SIZE .. MaxSplitKeywords, id \in 1 .. MaxClusters :
       splitArg = createClusterObject(id, SplitKeywords(n), "hybrid")
  /\ splitResult = <<>>
  /\ kpc = "kmeans"

NextSplit ==
  \E assignment \in [DOMAIN splitArg.keywords ->
                       0 .. Max(NumSubClusters(Len(splitArg.keywords)), 1) - 1] :
    SplitDone(assignment)

SpecSplit == InitSplit /\ [][NextSplit]_vars

InitBrowser ==
  /\ InitServer
  /\ InitNoClustering
  /\ InitNoScrape
  /\ InitNoUnique
  /\ InitNoCall
  /\ InitNoSplit
  /\ crawlOptions \in [maxPages : 1 .. MaxPagesOption, followLinks : BOOLEAN]
  /\ visitedUrls = {}
  /\ pagesToVisit = <<>>
  /\ currentUrl = ""
  /\ crawlPages = <<>>
  /\ crpc = "idle"
  /\ fetchLog = <<>>
  /\ browser = "null"
  /\ ppc = "launch"
  /\ pwError = FALSE

NextBrowser ==
  \/ \E ok \in BOOLEAN : LaunchDone(ok)
  \/ \E ok \in BOOLEAN : SetupDone(ok)
  \/ \E ok \in BOOLEAN : NewPageDone(ok)
  \/ \E outcome \in PageOutcomes, links \in LinkLists : VisitDone(outcome, links)
  \/ \E ok \in BOOLEAN : CloseDone(ok)

SpecBrowser == InitBrowser /\ [][NextBrowser]_vars

\* Termination: scrapeWebsite with every strategy run as one step, and a
\* run's crawl with every page load as one step.  A call that is awaited
\* returns or throws, so the step that resumes after it is taken.
InitTerminate == InitScrape \/ InitCrawl

NextTerminate == NextScrape \/ NextCrawl

SpecTerminate ==
  /\ InitTerminate
  /\ [][NextTerminate]_vars
  /\ WF_vars(NextScrape)
  /\ WF_vars(NextCrawl)

----------------------------------------------------------------------------
(* Properties of the research router *)

JobIds == DOMAIN job

\* C1: a job's status leaves "processing" at most once and never changes
\* again afterwards; in particular a cancelled job is never set to completed
\* or failed by its background task.
C1_StatusIsFinal ==
  [][\A id \in JobIds :
       job[id].status # "processing" => job'[id].status = job[id].status]_vars

\* C2: the progress values written to a job record are non-decreasing on
\* every path, the path where a stage fails included.
C2_ProgressNonDecreasing ==
  \A id \in JobIds :
    \A i \in 1 .. Len(progressLog[id]) - 1 :
      progressLog[id][i] <= progressLog[id][i + 1]

\* C3: once DELETE has cancelled a job, its task starts none of the remaining
\* stages and discards the result of the call that was in flight.
C3_CancelStopsTask == afterCancel = {}

\* C4: once DELETE has succeeded for a job, the job is not in the store and
\* every later GET for its id answers 404, whatever its task does afterwards.
C4_DeletedStaysGone ==
  /\ \A id \in deleted : id \notin jobs
  /\ (resp.op = "GET" /\ resp.id \in deleted) => resp.code = 404

C4_Witness ==
  /\ resp.op = "GET" /\ resp.code = 404
  /\ resp.id \in deleted
  /\ resp.id \in afterCancel
  /\ pc[resp.id] = "done"

\* C5: for every ip and at every instant at most REQUEST_LIMIT requests of
\* the ip were admitted during the last hour; a request that meets
\* REQUEST_LIMIT admitted requests of its ip within the last hour is answered
\* 429 and creates no job.
C5_AtMostLimitPerHour ==
  /\ \A ip \in IPs : Cardinality(AdmittedInWindow(ip)) <= REQUEST_LIMIT
  /\ (resp.op = "POST" /\ resp.inWindow >= REQUEST_LIMIT) =>
        (resp.code = 429 /\ resp.id = 0)
  /\ Cardinality(JobIds) <= Admitted

C5_Witness ==
  /\ resp.op = "POST" /\ resp.code = 429
  /\ resp.inWindow = REQUEST_LIMIT
  /\ lastReject[resp.ip].at > 0

\* C6: a 429 carries retryAfter >= 1, the number of seconds, rounded up, until
\* the oldest in-window request of the ip is one hour old; the ip's next
\* request, made retryAfter seconds later, is admitted.
C6_RetryAfterIsExact ==
  /\ \A ip \in IPs :
       LET r == lastReject[ip] IN
       r.at >= 0 =>
         /\ r.retryAfter >= 1
         /\ r.retryAfter * SECOND_MS >= r.oldest + HOUR_MS - r.at
         /\ (r.retryAfter - 1) * SECOND_MS < r.oldest + HOUR_MS - r.at
  /\ resp.code = 429 => resp.retryAfter = lastReject[resp.ip].retryAfter
  /\ (resp.op = "POST" /\ resp.promised) => resp.code # 429

C6_Witness ==
  /\ resp.op = "POST" /\ resp.promised /\ resp.code = 200
  /\ now % SECOND_MS # 0

\* C7: a sweep runs on every job creation and every hour; after a sweep the
\* store holds no job older than 24 hours; a sweep removes no job younger than
\* 24 hours, and a job leaves the store only by a sweep or by DELETE.
C7_Retention ==
  /\ lastSweepAt = now => \A id \in jobs : JobAge(id) <= MAX_AGE_MS
  /\ \A id \in JobIds : sweptAge[id] # -1 => sweptAge[id] >= MAX_AGE_MS
  /\ \A id \in JobIds : id \notin jobs => (id \in deleted \/ sweptAge[id] # -1)
  /\ \A id \in JobIds : lastSweepAt >= job[id].createdAt
  /\ now - (IF lastSweepAt = -1 THEN 0 ELSE lastSweepAt) <= SWEEP_INTERVAL_MS

C7_Witness ==
  /\ lastSweepAt = now
  /\ \E a \in JobIds : sweptAge[a] > MAX_AGE_MS
  /\ \E b \in jobs : JobAge(b) = MAX_AGE_MS

----------------------------------------------------------------------------
(* Properties of the AI enhancement phase *)

\* C10: when a request to the AI service fails during clustering (regroup,
\* scrutinize or the enhancement of one cluster; the call threw, the text
\* holds no JSON, or the JSON does not parse), the cluster list is exactly
\* what it was before the request, and clusterKeywords goes on with its next
\* step instead of failing.
C10_AiFailureChangesNothing ==
  lastAi.outcome \in AiFailures =>
    /\ clusters = prevClusters
    /\ lastAi.request = "regroup" => cpc = "scrutinize"
    /\ lastAi.request = "scrutinize" => cpc = "enhance"
    /\ lastAi.request = "enhance" => cpc \in {"enhance", "returned"}

C10_Witness ==
  /\ lastAi = [request |-> "scrutinize", outcome |-> "badjson"]
  /\ Len(clusters) > 1
  /\ clusters[1].pillarTopic = "Technical SEO"
  /\ clusters = prevClusters

----------------------------------------------------------------------------
(* Properties of the job's warnings *)

\* C11: when an AI request failed during a job's clustering, the job that
\* completes carries an entry for the failure in its warnings list.
C11_AiFailureIsWarned ==
  \A id \in JobIds :
    (id \in aiFailed /\ job[id].status = "completed") =>
      Len(job[id].warnings) > 0

----------------------------------------------------------------------------
(* Properties of scrapeWebsite *)

PagesOf(tag) ==
  {callLog[i].pages : i \in {j \in DOMAIN callLog : callLog[j].strategy = tag}}

\* C12: with strategy auto, when no browser run produced a page (each threw
\* or returned an empty page list), scrapeWebsite runs the HTTP strategy
\* before it reports failure, and when an HTTP run produced pages it returns
\* them under the HTTP tag.
C12_AutoFallsBackToHttp ==
  (/\ scrapeOptions.strategy = "auto"
   /\ spc \in {"returned", "threw"}
   /\ \A n \in PagesOf("playwright") : n <= 0) =>
     /\ PagesOf("axios") # {}
     /\ (\E n \in PagesOf("axios") : n > 0) =>
          (spc = "returned" /\ result.strategy = "axios" /\ result.pages > 0)

----------------------------------------------------------------------------
(* Properties of a crawl *)

\* C13: within one crawl at most maxPages urls are fetched, every one a
\* canonical url and none twice, and at most maxPages pages are returned,
\* each of a fetched url; with maxPages = 1 the start url alone is fetched
\* and at most one page is returned.
C13_CrawlIsBounded ==
  /\ Len(fetchLog) <= crawlOptions.maxPages
  /\ \A i, j \in DOMAIN fetchLog : fetchLog[i] = fetchLog[j] => i = j
  /\ \A i \in DOMAIN fetchLog : normalizeUrl(fetchLog[i]) = fetchLog[i]
  /\ Len(crawlPages) <= crawlOptions.maxPages
  /\ \A i \in DOMAIN crawlPages : \E j \in DOMAIN fetchLog : crawlPages[i] = fetchLog[j]
  /\ \A i, j \in DOMAIN crawlPages : crawlPages[i] = crawlPages[j] => i = j
  /\ crawlOptions.maxPages = 1 =>
       (fetchLog = <<normalizeUrl(StartUrl)>> /\ Len(crawlPages) <= 1)

C13_Witness ==
  /\ crpc = "returned"
  /\ crawlOptions.maxPages = 2
  /\ fetchLog = <<"https://site.test", "https://site.test/a">>
  /\ Len(crawlPages) = 2

----------------------------------------------------------------------------
(* Properties of ensureUniqueKeywords *)

TextsOf(cluster) == {normalizeKeyword(k.keyword) : k \in Range(cluster.keywords)}

\* C15: a keyword that the given clusters hold more than once ends up in
\* exactly one returned cluster, the one made from the given cluster whose
\* pillar topic is most similar to the keyword (the earliest such cluster
\* when the similarities are equal).  The example: of A (pillar "seo") and
\* B (pillar "marketing"), both holding "seo services", A keeps it.
C15_DuplicateGoesToBestCluster ==
  upc = "returned" =>
    \A i \in DOMAIN given : \A j \in DOMAIN given : \A t \in TextsOf(given[i]) :
      (i # j /\ t \in TextsOf(given[j])) =>
        LET holders == {h \in DOMAIN given : t \in TextsOf(given[h])}
            affinity(h) == calculateSemanticSimilarity(t, given[h].pillarTopic)
            best == CHOOSE h \in holders : \A o \in holders :
                      \/ affinity(h) > affinity(o)
                      \/ affinity(h) = affinity(o) /\ h <= o
        IN \E c \in DOMAIN unique :
             /\ t \in TextsOf(unique[c])
             /\ unique[c].pillarTopic = given[best].pillarTopic
             /\ \A d \in DOMAIN unique : d # c => t \notin TextsOf(unique[d])

AlreadyUnique(cl) ==
  \A i \in DOMAIN cl : \A j \in DOMAIN cl :
    \A a \in DOMAIN cl[i].keywords : \A b \in DOMAIN cl[j].keywords :
      normalizeKeyword(cl[i].keywords[a].keyword)
        = normalizeKeyword(cl[j].keywords[b].keyword) => (i = j /\ a = b)

\* C16: given clusters none of which shares a keyword with another,
\* ensureUniqueKeywords returns the list as it was given: the same clusters
\* in the same order, each with its keywords and its fields (id, pillarTopic,
\* relevanceScore, clusterValueScore, rank, the ai fields).
C16_UniqueListIsUntouched ==
  (upc = "returned" /\ AlreadyUnique(given)) => unique = given

\* C19: in every cluster that ensureUniqueKeywords returns (after rebuilding
\* the clusters and re-assigning the orphaned keywords), totalSearchVolume
\* is the sum of the keywords' volumes, keywordCount is their number, and
\* the keywords stand by non-increasing volume.
C19_MetricsMatchKeywords ==
  upc = "returned" =>
    \A c \in DOMAIN unique :
      /\ unique[c].totalSearchVolume = calculateTotalVolume(unique[c].keywords)
      /\ unique[c].keywordCount = Len(unique[c].keywords)
      /\ \A a \in DOMAIN unique[c].keywords : \A b \in DOMAIN unique[c].keywords :
           a < b => unique[c].keywords[a].searchVolume
                      >= unique[c].keywords[b].searchVolume

----------------------------------------------------------------------------
(* Properties of what clusterKeywords returns *)

C17_ClustersHaveMinSize ==
  (cpc = "returned" /\ Len(input) >= ckOptions.minClusterSize) =>
    \A i \in DOMAIN returned :
      Len(returned[i].keywords) >= ckOptions.minClusterSize

\* C18: an input that is not empty and has fewer keywords than
\* options.minClusterSize comes back as exactly one cluster that holds all
\* the keywords of the input, for every minClusterSize and with or without
\* a site context.
C18_SmallInputIsOneCluster ==
  (cpc = "returned" /\ input # <<>> /\ Len(input) < ckOptions.minClusterSize) =>
    /\ Len(returned) = 1
    /\ Range(returned[1].keywords) = Range(input)
    /\ Len(returned[1].keywords) = Len(input)

\* C20: the returned clusters carry the ranks 1, 2, ..., K in list order,
\* and the list is ordered by clusterValueScore, then relevanceScore, then
\* totalSearchVolume, then number of keywords, each descending.
C20_RankedInOrder ==
  cpc = "returned" =>
    /\ \A i \in DOMAIN returned : returned[i].rank = i
    /\ \A i \in DOMAIN returned : \A j \in DOMAIN returned :
         i < j => CompareClusters(returned[i], returned[j]) <= 0

----------------------------------------------------------------------------
(* Properties of the options a job hands on *)

\* C21: the maxPages value a job hands to the scraper lies in 1 .. 100,
\* whatever options.maxPages the request carried.
C21_MaxPagesClamped ==
  jpc = "called" => scraperCall.maxPages \in 1 .. 100

----------------------------------------------------------------------------
(* Properties of what the AI block contributes to the returned list *)

\* The pillar topics the AI responses provide (renames arrive trimmed).
AiTopics == {"Technical SEO", "Audit Hub", "Growth Playbook"}

\* C22: a cluster that left the AI block with an AI-provided pillar topic
\* carries that topic in the list clusterKeywords returns (the corresponding
\* returned cluster is the one with the same keywords).
C22_AiPillarTopicKept ==
  (cpc = "returned" /\ returnPath = "ai") =>
    \A i \in DOMAIN clusters, c \in DOMAIN returned :
      (clusters[i].pillarTopic \in AiTopics
         /\ TextsOf(returned[c]) = TextsOf(clusters[i]))
        => returned[c].pillarTopic = clusters[i].pillarTopic

\* C23: a cluster the regroup response listed in priorityClusters (it left
\* the AI block with aiPriority true) has aiPriority true in the list
\* clusterKeywords returns, and no other returned cluster has.
C23_PriorityFlagKept ==
  (cpc = "returned" /\ returnPath = "ai") =>
    \A i \in DOMAIN clusters, c \in DOMAIN returned :
      TextsOf(returned[c]) = TextsOf(clusters[i])
        => (returned[c].aiPriority = "true" <=> clusters[i].aiPriority = "true")

\* C24: every cluster clusterKeywords returns has a non-empty aiDescription
\* and a non-empty aiContentStrategy, on every return path.
C24_NarrativesPresent ==
  cpc = "returned" =>
    \A c \in DOMAIN returned :
      /\ returned[c].aiDescription # "undefined"
      /\ Trim(returned[c].aiDescription) # ""
      /\ returned[c].aiContentStrategy # "undefined"
      /\ Trim(returned[c].aiContentStrategy) # ""

----------------------------------------------------------------------------
(* Properties of splitCluster *)

----------------------------------------------------------------------------
(* Properties of what a crawl follows *)

\* C26: links are appended to the frontier only from the first page that
\* was fetched with wordCount > 0: when a url beyond the start url is
\* queued or fetched, the start url's page is among the returned pages; a
\* page whose fetch fails or whose wordCount is 0 contributes no link.
C26_LinksOnlyFromContentPage ==
  (pagesToVisit # <<>> \/ Len(fetchLog) >= 2) =>
    (crawlPages # <<>> /\ crawlPages[1] = fetchLog[1])

----------------------------------------------------------------------------
(* Properties of the browser of scrapeWithPlaywright *)

----------------------------------------------------------------------------
(* Properties of the scrutinize step *)

\* C28: after the scrutinize response was applied every keyword of the
\* clusters is one of the keyword objects of the job's keyword list or of the
\* clusters passed in, and no keyword is in two clusters.
C28_ScrutinizeAddsNoKeyword ==
  lastAi.request = "scrutinize" =>
    /\ \A c \in DOMAIN clusters : \A k \in Range(clusters[c].keywords) :
         \/ k \in Range(input)
         \/ \E p \in DOMAIN prevClusters : k \in Range(prevClusters[p].keywords)
    /\ \A c, d \in DOMAIN clusters :
         c # d => TextsOf(clusters[c]) \cap TextsOf(clusters[d]) = {}

----------------------------------------------------------------------------
(* Properties of the rate limiter's windows *)

\* When the rate limiter next admits a request of ip: at once, or when the
\* oldest request of its window is one hour old.
NextAdmitAt(ip) ==
  IF OverLimit(InWindow(ip)) THEN InWindow(ip)[1] + HOUR_MS ELSE now

\* C29: a request answered 429 is not recorded in its ip's window, so it
\* does not postpone the instant at which the ip is next admitted; a request
\* of one ip changes neither the window nor the admission of another ip (an
\* ip's window changes only by an admitted request of that ip).
C29_RejectionLeavesWindows ==
  [][\A ip \in IPs :
       /\ requestCounts'[ip] # requestCounts[ip] =>
            (resp'.op = "POST" /\ resp'.ip = ip /\ resp'.code # 429)
       /\ (now' = now /\ (resp'.ip # ip \/ resp'.code = 429)) =>
            NextAdmitAt(ip)' = NextAdmitAt(ip)]_vars

C29_Witness ==
  /\ resp.op = "POST" /\ resp.ip = "ipB" /\ resp.code = 200
  /\ lastReject["ipA"].at >= 0
  /\ Len(InWindow("ipA")) = REQUEST_LIMIT

----------------------------------------------------------------------------
(* Termination of scrapeWebsite *)

RunsOf(tag) == Cardinality({i \in DOMAIN callLog : callLog[i].strategy = tag})

\* C30: scrapeWebsite makes at most retryAttempts runs of each strategy, a
\* run's crawl makes at most maxPages fetches, and, every awaited call
\* returning or throwing, scrapeWebsite and each crawl come to their end.
C30_ScrapeTerminates ==
  /\ [](/\ RunsOf("playwright") <= scrapeOptions.retryAttempts
        /\ RunsOf("axios") <= scrapeOptions.retryAttempts
        /\ Len(fetchLog) <= crawlOptions.maxPages)
  /\ <>(spc \in {"idle", "returned", "threw"} /\ crpc \in {"idle", "returned"})

C30_Witness ==
  /\ spc = "threw"
  /\ scrapeOptions.strategy = "auto"
  /\ scrapeOptions.retryAttempts = MaxRetryAttempts
  /\ RunsOf("playwright") = MaxRetryAttempts
  /\ RunsOf("axios") = MaxRetryAttempts

====
